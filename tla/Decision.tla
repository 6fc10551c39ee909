------------------------------- MODULE Decision -------------------------------
(***************************************************************************)
(* What the approval queue of the extension promises the page and the user  *)
(* about each request, whatever the windows, timers, ports and locks behind *)
(* it do ("Completed, rejected, expired, disconnected and failed-to-open    *)
(* requests clear automatically", apps/extension/README.md 21): it is       *)
(* decided once, executed only upon a decision, and the page, if it hears   *)
(* of it, hears "no" of a request that was not executed and of an outcome   *)
(* only after the execution.  ExtensionApproval implements this.            *)
(***************************************************************************)
CONSTANT Requests

VARIABLES
    decision,   \* "new", "open", "taken" for execution, "over"
    reply       \* what the page has heard: "nothing", "no", "outcome"

vars == <<decision, reply>>

Init ==
    /\ decision = [r \in Requests |-> "new"]
    /\ reply = [r \in Requests |-> "nothing"]

Moved(S, to) == [r \in Requests |-> IF r \in S THEN to ELSE decision[r]]
Told(S, what) == [r \in Requests |-> IF r \in S THEN what ELSE reply[r]]

\* A page asks.
Ask(r) ==
    /\ decision[r] = "new"
    /\ decision' = Moved({r}, "open")
    /\ UNCHANGED reply

\* Requests are turned down, at the door or later; those pages that can still be
\* reached hear of it.
TurnDown(S) ==
    /\ S # {} /\ \A r \in S : decision[r] = "open"
    /\ decision' = Moved(S, "over")
    /\ \E reached \in SUBSET S : reply' = Told(reached, "no")

\* The user agrees to one.
Take(r) ==
    /\ decision[r] = "open"
    /\ decision' = Moved({r}, "taken")
    /\ UNCHANGED reply

\* It has been executed, or has failed in the execution.
Finish(r) ==
    /\ decision[r] = "taken"
    /\ decision' = Moved({r}, "over")
    /\ \E reached \in SUBSET {r} : reply' = Told(reached, "outcome")

\* The worker dies and forgets everything that was under way.
Die ==
    /\ decision' = Moved({r \in Requests : decision[r] # "new"}, "over")
    /\ UNCHANGED reply

Next ==
    \/ \E r \in Requests : Ask(r) \/ Take(r) \/ Finish(r)
    \/ \E S \in SUBSET Requests : TurnDown(S)
    \/ Die

Spec == Init /\ [][Next]_vars
===============================================================================
