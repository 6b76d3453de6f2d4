------------------------------- MODULE Sender -------------------------------
(***************************************************************************)
(* What the interface Sender of transmission/sender.go promises, without   *)
(* any of the machinery that keeps the promise: Add queues an event, Flush *)
(* and Stop return only once everything in flight at their call has been   *)
(* sent, and every event handed over leads to one Response.                *)
(***************************************************************************)
EXTENDS Naturals

CONSTANTS
  Events,   \* the events the program hands over
  Flushers  \* the goroutines that call Flush

VARIABLES
  handed,   \* events given to Add or, when sampled out, to SendResponse
  pending,  \* events queued or in flight
  sent,     \* events whose sending is over, successfully or not
  answers,  \* answers[e]: Responses generated for e
  flushing, \* the goroutines that are in Flush
  awaited,  \* pending events that were queued when one of them called
  stop      \* "no", "wait" while Stop runs, "done" when it has returned

senderVars == <<handed, pending, sent, answers, flushing, awaited, stop>>

Init ==
  /\ handed = {} /\ pending = {} /\ sent = {}
  /\ answers = [e \in Events |-> 0]
  /\ flushing = {} /\ awaited = {}
  /\ stop = "no"

\* The program calls Add, or SendResponse: not after it has called Stop.
Hand(e) ==
  /\ stop = "no"
  /\ e \notin handed
  /\ handed' = handed \cup {e}
  /\ UNCHANGED <<pending, sent, answers, flushing, awaited, stop>>

\* Add queues up an event to be sent.
Queue(e) ==
  /\ e \in handed \ (pending \cup sent)
  /\ answers[e] = 0
  /\ pending' = pending \cup {e}
  /\ UNCHANGED <<handed, sent, answers, flushing, awaited, stop>>

\* A single Response for each event.
Answer(e) ==
  /\ e \in handed
  /\ answers[e] = 0
  /\ answers' = [answers EXCEPT ![e] = 1]
  /\ UNCHANGED <<handed, pending, sent, flushing, awaited, stop>>

\* A batch of queued events has been dealt with, and each was answered.
Finish(S) ==
  /\ S # {} /\ S \subseteq pending
  /\ \A e \in S : answers[e] = 1
  /\ pending' = pending \ S
  /\ sent' = sent \cup S
  /\ awaited' = awaited \ S
  /\ UNCHANGED <<handed, answers, flushing, stop>>

FlushCall(f) ==
  /\ stop = "no"
  /\ f \notin flushing
  /\ flushing' = flushing \cup {f}
  /\ awaited' = awaited \cup pending
  /\ UNCHANGED <<handed, pending, sent, answers, stop>>

\* Flush blocks until everything in flight has been sent.  When several overlap,
\* that holds of the last to return.
FlushReturn(f) ==
  /\ f \in flushing
  /\ flushing' = flushing \ {f}
  /\ flushing' = {} => awaited = {}
  /\ UNCHANGED <<handed, pending, sent, answers, awaited, stop>>

StopCall ==
  /\ stop = "no"
  /\ stop' = "wait"
  /\ UNCHANGED <<handed, pending, sent, answers, flushing, awaited>>

\* Stop blocks until everything in flight has been sent.
StopReturn ==
  /\ stop = "wait"
  /\ pending = {}
  /\ \A e \in handed : answers[e] = 1
  /\ stop' = "done"
  /\ UNCHANGED <<handed, pending, sent, answers, flushing, awaited>>

\* After a Start, Add may be called again.
StartAgain ==
  /\ stop = "done"
  /\ stop' = "no"
  /\ UNCHANGED <<handed, pending, sent, answers, flushing, awaited>>

Next ==
  \/ \E e \in Events : Hand(e) \/ Queue(e) \/ Answer(e)
  \/ \E S \in SUBSET Events : Finish(S)
  \/ \E f \in Flushers : FlushCall(f) \/ FlushReturn(f)
  \/ StopCall
  \/ StopReturn
  \/ StartAgain

Spec == Init /\ [][Next]_senderVars

=============================================================================
