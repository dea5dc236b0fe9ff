----------------------------- MODULE RemoteCall -----------------------------
(***************************************************************************)
(* What the code above a call to the API can count on, whatever the        *)
(* network does (nvfleetint/client.go): a write takes effect once at most, *)
(* not before the call began, and possibly after its caller gave up; a     *)
(* call ends once, and what it ended with is final.  That a call succeeded *)
(* does not say that its write took effect, since a redirect may have made *)
(* a read of it.                                                           *)
(*                                                                         *)
(* ApiCall implements this with attempts, redirects and deadlines.  The    *)
(* PUT of ZoneUpdate is one such call.                                     *)
(***************************************************************************)
EXTENDS Naturals

CONSTANTS
    Calls,
    Writes    \* the calls that change something

VARIABLES
    status,   \* of each call, for its caller
    effects   \* how often each call has taken effect

vars == <<status, effects>>

Init ==
    /\ status = [c \in Calls |-> "idle"]
    /\ effects = [c \in Calls |-> 0]

Begin(c) ==
    /\ status[c] = "idle"
    /\ status' = [status EXCEPT ![c] = "running"]
    /\ UNCHANGED effects

TakeEffect(c) ==
    /\ c \in Writes
    /\ status[c] # "idle"
    /\ effects[c] = 0
    /\ effects' = [effects EXCEPT ![c] = 1]
    /\ UNCHANGED status

Finish(c) ==
    /\ status[c] = "running"
    /\ \E s \in {"ok", "failed"} : status' = [status EXCEPT ![c] = s]
    /\ UNCHANGED effects

Next == \E c \in Calls : Begin(c) \/ TakeEffect(c) \/ Finish(c)

Spec == Init /\ [][Next]_vars
=============================================================================
