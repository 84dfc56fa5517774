------------------------------ MODULE AiBridge ------------------------------
(***************************************************************************)
(* The AI transport of ai.c over the serial port of uart.c, with the host  *)
(* agent (agent.py) at the other end: aiquery() in several processes, the  *)
(* receive interrupt, the clock, timeouts, kills and answers that come     *)
(* late.                                                                   *)
(*                                                                         *)
(* The wire carries lines.  A line of a response is named by the request   *)
(* it answers; BEGIN_RESP and END_RESP frame them.  A timeout may come at  *)
(* any time, for the host may take any time.                               *)
(***************************************************************************)
EXTENDS Naturals, Sequences, FiniteSets

CONSTANTS
    Proc,          \* processes that call ai_query()
    MaxReq,        \* bound on the number of requests
    MaxLines,      \* lines that fit ai.response
    AnswerLens,    \* numbers of lines that the host may answer with
    OtherOutput    \* whether other processes write to the console

ASSUME AiBridgeAssumption ==
    /\ MaxReq \in Nat /\ MaxLines \in Nat
    /\ AnswerLens \subseteq Nat \ {0}
    /\ OtherOutput \in BOOLEAN

VARIABLES
    active, draining, suppress_console, in_response, complete, failed,
    response,      \* ai.response: the lines received
    pc,            \* where each process is in aiquery()
    req,           \* its request
    result,        \* what its aiquery() returned
    nreq,          \* requests made so far
    requests,      \* requests on their way to the host
    answer,        \* the number of lines of the host's answer to a request
    wire,          \* lines on their way from the host
    printing,      \* consputc() is past its test of suppress_console
    midline,       \* the last byte sent to the host was not a newline
    burst,         \* the loop of uartintr(): none, for the AI, for the console
    leaked         \* consoleintr() was given a line of a response

aiVars == <<active, draining, suppress_console, in_response, complete, failed, response>>
procVars == <<pc, req, result, nreq>>
hostVars == <<requests, answer>>
outVars == <<printing, midline>>
vars == <<active, draining, suppress_console, in_response, complete, failed, response,
          pc, req, result, nreq, requests, answer, wire, printing, midline, burst, leaked>>

Begin == [kind |-> "BEGIN_RESP", of |-> 0]
End == [kind |-> "END_RESP", of |-> 0]
Line(r) == [kind |-> "line", of |-> r]
Failure == <<0>>

Init ==
    /\ active = FALSE /\ draining = FALSE /\ suppress_console = FALSE
    /\ in_response = FALSE /\ complete = FALSE /\ failed = FALSE
    /\ response = <<>>
    /\ pc = [p \in Proc |-> "idle"]
    /\ req = [p \in Proc |-> 0]
    /\ result = [p \in Proc |-> Failure]
    /\ nreq = 0
    /\ requests = <<>>
    /\ answer = [r \in 1..MaxReq |-> 0]
    /\ wire = <<>>
    /\ printing = FALSE
    /\ midline = FALSE
    /\ burst = "none"
    /\ leaked = FALSE

\* wakeup(&ai)
Wakeup == [p \in Proc |-> IF pc[p] = "sleep" THEN "wait" ELSE pc[p]]
-----------------------------------------------------------------------------
(* aiquery()                                                               *)

Busy == active \/ draining

Reset ==
    /\ complete' = FALSE /\ failed' = FALSE
    /\ response' = <<>>
    /\ in_response' = FALSE

\* The request is refused, or the bridge is taken and reset.
aiquery(p) ==
    /\ pc[p] = "idle"
    /\ nreq < MaxReq
    /\ nreq' = nreq + 1
    /\ req' = [req EXCEPT ![p] = nreq + 1]
    /\ IF Busy
       THEN /\ pc' = [pc EXCEPT ![p] = "done"]
            /\ result' = [result EXCEPT ![p] = Failure]
            /\ UNCHANGED aiVars
       ELSE /\ pc' = [pc EXCEPT ![p] = "send"]
            /\ active' = TRUE /\ draining' = FALSE /\ suppress_console' = TRUE
            /\ Reset
            /\ UNCHANGED result
    /\ UNCHANGED <<hostVars, wire, burst, leaked, outVars>>

\* read_request() looks for a line that is BEGIN_REQ and nothing more.
Recognised(r) == IF midline THEN requests ELSE Append(requests, r)

\* BEGIN_REQ, the prompt and END_REQ go out without ai.lock.
ai_send(p) ==
    /\ pc[p] = "send"
    /\ requests' = Recognised(req[p])
    /\ midline' = FALSE
    /\ pc' = [pc EXCEPT ![p] = "wait"]
    /\ UNCHANGED <<aiVars, req, result, nreq, answer, wire, printing, burst, leaked>>

\* Mutant: a failed transaction returns what was received.
Outcome_unfailed(fits) == IF ~fits THEN Failure ELSE response

Outcome(fits) == IF failed \/ ~fits THEN Failure ELSE response

\* The loop finds the transaction complete; the response may not fit maxlen.
ai_return(p) ==
    /\ pc[p] = "wait"
    /\ complete
    /\ \E fits \in BOOLEAN : result' = [result EXCEPT ![p] = Outcome(fits)]
    /\ pc' = [pc EXCEPT ![p] = "done"]
    /\ UNCHANGED <<aiVars, req, nreq, hostVars, wire, burst, leaked, outVars>>

\* Mutant: the bridge is free at once, although the answer is still to come.
Abandon_free ==
    /\ active' = FALSE /\ suppress_console' = FALSE
    /\ UNCHANGED draining

\* What a killed or timed out aiquery() leaves behind.
Abandon ==
    /\ active' = FALSE /\ suppress_console' = FALSE
    /\ draining' = TRUE

ai_giveup(p) ==
    /\ pc[p] = "wait"
    /\ ~complete
    /\ Abandon
    /\ result' = [result EXCEPT ![p] = Failure]
    /\ pc' = [pc EXCEPT ![p] = "done"]
    /\ UNCHANGED <<in_response, complete, failed, response, req, nreq, hostVars, wire, burst, leaked, outVars>>

ai_sleep(p) ==
    /\ pc[p] = "wait"
    /\ ~complete
    /\ pc' = [pc EXCEPT ![p] = "sleep"]
    /\ UNCHANGED <<aiVars, req, result, nreq, hostVars, wire, burst, leaked, outVars>>

\* The caller has its result and may ask again.
resume(p) ==
    /\ pc[p] = "done"
    /\ pc' = [pc EXCEPT ![p] = "idle"]
    /\ req' = [req EXCEPT ![p] = 0]
    /\ result' = [result EXCEPT ![p] = Failure]
    /\ UNCHANGED <<aiVars, nreq, hostVars, wire, burst, leaked, outVars>>

\* Mutant: the clock wakes nobody.
TickWakes_nobody == pc

\* ai_tick() wakes the waiters of an active transaction, to look at the time.
TickWakes == IF active THEN Wakeup ELSE pc

ai_tick ==
    /\ pc' = TickWakes
    /\ pc' # pc
    /\ UNCHANGED <<aiVars, req, result, nreq, hostVars, wire, burst, leaked, outVars>>
-----------------------------------------------------------------------------
(* uartintr() and ai_uart_rx()                                             *)

ForAi == active \/ draining

\* The interrupt decides once whose input this is ...
uartintr ==
    /\ burst = "none"
    /\ wire # <<>>
    /\ burst' = IF ForAi THEN "ai" ELSE "console"
    /\ UNCHANGED <<aiVars, procVars, hostVars, wire, leaked, outVars>>

\* ... and serves what arrives before the receiver is found empty.
uartintr_end ==
    /\ burst # "none"
    /\ burst' = "none"
    /\ UNCHANGED <<aiVars, procVars, hostVars, wire, leaked, outVars>>

ai_finish_locked(f) ==
    /\ failed' = f /\ complete' = TRUE
    /\ active' = FALSE /\ draining' = FALSE /\ suppress_console' = FALSE
    /\ pc' = Wakeup

\* Mutant: input is dropped once the process has given up.
Listening_active == active

Listening == active \/ draining

Full == Len(response) >= MaxLines

\* One line for the AI transport.
ai_uart_rx ==
    /\ burst = "ai"
    /\ wire # <<>>
    /\ LET l == Head(wire) IN
       IF ~Listening
       THEN UNCHANGED <<aiVars, pc>>
       ELSE IF ~in_response
       THEN /\ in_response' = (l = Begin)
            /\ response' = IF l = Begin THEN <<>> ELSE response
            /\ UNCHANGED <<active, draining, suppress_console, complete, failed, pc>>
       ELSE IF l = End
       THEN ai_finish_locked(FALSE) /\ UNCHANGED <<in_response, response>>
       ELSE IF Full
       THEN ai_finish_locked(TRUE) /\ UNCHANGED <<in_response, response>>
       ELSE /\ response' = Append(response, l.of)
            /\ UNCHANGED <<active, draining, suppress_console, in_response, complete, failed, pc>>
    /\ wire' = Tail(wire)
    /\ UNCHANGED <<req, result, nreq, hostVars, burst, leaked, outVars>>

\* One line for the console.
consoleintr ==
    /\ burst = "console"
    /\ wire # <<>>
    /\ leaked' = TRUE
    /\ wire' = Tail(wire)
    /\ UNCHANGED <<aiVars, procVars, hostVars, burst, outVars>>
-----------------------------------------------------------------------------
(* consputc(): output of another process is mirrored to the serial line.   *)

consputc ==
    /\ OtherOutput
    /\ ~printing
    /\ ~suppress_console
    /\ printing' = TRUE
    /\ UNCHANGED <<aiVars, procVars, hostVars, wire, midline, burst, leaked>>

uartputc ==
    /\ printing
    /\ printing' = FALSE
    /\ midline' \in BOOLEAN
    /\ UNCHANGED <<aiVars, procVars, hostVars, wire, burst, leaked>>
-----------------------------------------------------------------------------
\* run_agent(): answers the requests in order, each with one framed response.
agent(n) ==
    /\ requests # <<>>
    /\ LET r == Head(requests) IN
       /\ answer' = [answer EXCEPT ![r] = n]
       /\ wire' = wire \o <<Begin>> \o [i \in 1..n |-> Line(r)] \o <<End>>
    /\ requests' = Tail(requests)
    /\ UNCHANGED <<aiVars, procVars, burst, leaked, outVars>>

Next ==
    \/ \E p \in Proc : aiquery(p) \/ ai_send(p) \/ ai_return(p) \/ ai_giveup(p)
                       \/ ai_sleep(p) \/ resume(p)
    \/ ai_tick
    \/ consputc \/ uartputc
    \/ uartintr \/ uartintr_end \/ ai_uart_rx \/ consoleintr
    \/ \E n \in AnswerLens : agent(n)

Spec == Init /\ [][Next]_vars

\* Processes run, the clock ticks, time runs out for whoever looks at it often
\* enough, received lines raise interrupts, and the host answers what it sees.
Fairness ==
    /\ \A p \in Proc : /\ WF_vars(ai_send(p)) /\ WF_vars(ai_return(p)) /\ WF_vars(ai_sleep(p))
                       /\ SF_vars(ai_giveup(p))
    /\ WF_vars(ai_tick)
    /\ WF_vars(uartintr) /\ SF_vars(ai_uart_rx \/ consoleintr)
    /\ WF_vars(\E n \in AnswerLens : agent(n))

FairSpec == Spec /\ Fairness
-----------------------------------------------------------------------------
(* Properties.                                                             *)

\* A successful ai_query() returns the whole answer to its own prompt and
\* nothing else, whatever answers of earlier requests come late.
OwnResponse ==
    \A p \in Proc : pc[p] = "done" /\ result[p] # Failure =>
        result[p] = [i \in 1..answer[req[p]] |-> req[p]]

\* The host's answer to some request does not fit ai.response.
Overflowed == \E r \in 1..MaxReq : answer[r] > MaxLines

\* The console gets no line of a response as input unless an answer overflowed
\* the buffer, not even when answers come after a timeout or a kill.
LeakedOnlyByOverflow == leaked => Overflowed

\* The bridge is taken, or drains, while an answer is still to come, so that no
\* second request can be confused with it, unless an answer overflowed.
BusyWhileAnswerDue ==
    (requests # <<>> \/ wire # <<>>) => active \/ draining \/ Overflowed

\* Console output goes on being mirrored to the serial line unless a process is
\* in its transaction.
SuppressedOnlyInQuery ==
    suppress_console => active /\ \E p \in Proc : pc[p] \in {"send", "wait", "sleep"}

\* Late, lost and oversized answers leave the bridge, the console's input and its
\* output in order.
BridgeSound == LeakedOnlyByOverflow /\ BusyWhileAnswerDue /\ SuppressedOnlyInQuery

\* ai_query() returns, also when the host never saw the request.
QueryReturns == \A p \in Proc : pc[p] \in {"send", "wait", "sleep"} ~> pc[p] = "done"

\* After a timeout or a kill the bridge becomes free again, if the host saw the
\* request: one that it did not see is never answered and blocks the bridge.
\* After an overflow the console may even take the answer to a later request.
DrainEnds ==
    draining /\ (requests # <<>> \/ wire # <<>>) ~> ~draining \/ Overflowed
=============================================================================
