---------------------------- MODULE FencedCommand ----------------------------
(***************************************************************************)
(* What a caller may rely on when it asks for the right to execute a       *)
(* command: the right is exclusive, every grant carries a larger token     *)
(* than the grants before it, only the current grant can decide the        *)
(* outcome, and an outcome is decided once.  Leases, clocks, events and    *)
(* the session mirror are details of CommandLeases, which implements this. *)
(***************************************************************************)
EXTENDS Integers

CONSTANTS
    Commands,       \* command identifiers
    Workers         \* identities that may hold the right to execute

VARIABLES
    token,          \* token[c]: the number of grants of c so far
    holder,         \* holder[c]: {w} when w may decide c's outcome now, or {}
    outcome         \* outcome[c]: "none", "executed" or "failed"

fencedVars == <<token, holder, outcome>>

FencedInit ==
    /\ token = [c \in Commands |-> 0]
    /\ holder = [c \in Commands |-> {}]
    /\ outcome = [c \in Commands |-> "none"]

\* An undecided command nobody holds is granted, under the next token.
Grant(c, w) ==
    /\ outcome[c] = "none"
    /\ holder[c] = {}
    /\ token' = [token EXCEPT ![c] = @ + 1]
    /\ holder' = [holder EXCEPT ![c] = {w}]
    /\ UNCHANGED outcome

\* The rights to a set of commands are taken back at once.
Revoke(S) ==
    /\ \A c \in S : holder[c] # {}
    /\ holder' = [c \in Commands |-> IF c \in S THEN {} ELSE holder[c]]
    /\ UNCHANGED <<token, outcome>>

\* The holder of the current token decides.
Decide(c, w, t, result) ==
    /\ holder[c] = {w}
    /\ token[c] = t
    /\ outcome' = [outcome EXCEPT ![c] = result]
    /\ holder' = [holder EXCEPT ![c] = {}]
    /\ UNCHANGED token

FencedNext ==
    \/ \E c \in Commands, w \in Workers : Grant(c, w)
    \/ \E S \in SUBSET Commands : Revoke(S)
    \/ \E c \in Commands, w \in Workers, result \in {"executed", "failed"} :
           Decide(c, w, token[c], result)

FencedSpec == FencedInit /\ [][FencedNext]_fencedVars
=============================================================================
