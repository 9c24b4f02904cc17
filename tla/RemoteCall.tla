----------------------------- MODULE RemoteCall -----------------------------
(***************************************************************************)
(* What a caller of either Go SDK may rely on, whatever the network does:  *)
(* a call that writes is carried out at most once, one that was never sent *)
(* is never carried out, and a call that returned an error may still be    *)
(* carried out afterwards.  A call that returned without an error was      *)
(* carried out while it was open, unless a redirect had led it astray:     *)
(* then no error says nothing.  SdkClient implements it.                   *)
(***************************************************************************)
EXTENDS Naturals

CONSTANT Call

VARIABLES
    writes,  \* the calls that ask for a change; fixed from the start
    stage,   \* what the caller of each call knows
    astray,  \* whether a redirect has led a call away from its request
    done     \* how often the authority has carried out each call

vars == <<writes, stage, astray, done>>

Stage == {"idle", "waiting", "ok", "error", "unsent"}

Init ==
    /\ writes \in [Call -> BOOLEAN]
    /\ stage = [c \in Call |-> "idle"]
    /\ astray = [c \in Call |-> FALSE]
    /\ done = [c \in Call |-> 0]

Invoke(c) ==
    /\ stage[c] = "idle"
    /\ \E s \in {"waiting", "unsent"} : stage' = [stage EXCEPT ![c] = s]
    /\ UNCHANGED <<writes, astray, done>>

CarryOut(c) ==
    /\ writes[c]
    /\ stage[c] \in {"waiting", "error"}
    /\ ~astray[c]
    /\ done[c] = 0
    /\ done' = [done EXCEPT ![c] = 1]
    /\ UNCHANGED <<writes, stage, astray>>

\* Away from the call's own request, or back to it.
Redirected(c) ==
    /\ stage[c] = "waiting"
    /\ astray' \in {[astray EXCEPT ![c] = a] : a \in BOOLEAN}
    /\ UNCHANGED <<writes, stage, done>>

Succeed(c) ==
    /\ stage[c] = "waiting"
    /\ writes[c] /\ ~astray[c] => done[c] = 1
    /\ stage' = [stage EXCEPT ![c] = "ok"]
    /\ UNCHANGED <<writes, astray, done>>

Fail(c) ==
    /\ stage[c] = "waiting"
    /\ stage' = [stage EXCEPT ![c] = "error"]
    /\ UNCHANGED <<writes, astray, done>>

Next == \E c \in Call : Invoke(c) \/ CarryOut(c) \/ Redirected(c) \/ Succeed(c) \/ Fail(c)

Spec == Init /\ [][Next]_vars
=============================================================================
