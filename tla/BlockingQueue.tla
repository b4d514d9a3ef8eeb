--------------------------- MODULE BlockingQueue ---------------------------
(***************************************************************************)
(* What a FreeRTOS queue promises its callers, whatever the interleaving:  *)
(* every call takes effect at one instant between its start and its        *)
(* return, or fails without any effect; a call that waits for ever never   *)
(* fails; a call that receives fails only at an instant when the queue is  *)
(* empty.  The interrupt handler puts and takes items at any time.         *)
(***************************************************************************)
EXTENDS Naturals, Sequences

CONSTANTS Tasks, QLen, Isr

VARIABLES
    items,      \* the items, oldest first
    req,        \* the call each task has in progress, or how its last ended
    forever     \* the calls that wait for ever

vars == <<items, req, forever>>

Init ==
    /\ items = << >>
    /\ req = [t \in Tasks |-> "pass"]
    /\ forever = [t \in Tasks |-> FALSE]

Done(t, r) ==
    /\ req' = [req EXCEPT ![t] = r]
    /\ forever' = [forever EXCEPT ![t] = FALSE]

Request(t) ==
    /\ req[t] \in {"pass", "fail"}
    /\ \E c \in {"send", "sendfront", "overwrite", "receive", "peek", "delay"} :
          req' = [req EXCEPT ![t] = c]
    /\ \E b \in BOOLEAN : forever' = [forever EXCEPT ![t] = b]
    /\ UNCHANGED items

Put(t) ==
    /\ \/ req[t] = "send" /\ Len(items) < QLen /\ items' = Append(items, t)
       \/ req[t] = "sendfront" /\ Len(items) < QLen /\ items' = <<t>> \o items
       \/ req[t] = "overwrite" /\ items' = <<t>>
    /\ Done(t, "pass")

Get(t) ==
    /\ req[t] \in {"receive", "peek"} /\ items # << >>
    /\ items' = IF req[t] = "peek" THEN items ELSE Tail(items)
    /\ Done(t, "pass")

Sleep(t) == req[t] = "delay" /\ Done(t, "pass") /\ UNCHANGED items

GiveUp(t) ==
    /\ ~forever[t]
    /\ \/ req[t] \in {"send", "sendfront"}
       \/ req[t] \in {"receive", "peek"} /\ items = << >>
    /\ Done(t, "fail")
    /\ UNCHANGED items

Handler ==
    /\ \/ Len(items) < QLen /\ items' = Append(items, Isr)
       \/ items # << >> /\ items' = Tail(items)
    /\ UNCHANGED <<req, forever>>

Next ==
    \/ \E t \in Tasks : Request(t) \/ Put(t) \/ Get(t) \/ Sleep(t) \/ GiveUp(t)
    \/ Handler

Spec == Init /\ [][Next]_vars
=============================================================================
