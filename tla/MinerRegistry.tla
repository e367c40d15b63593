---------------------------- MODULE MinerRegistry ----------------------------
(***************************************************************************)
(* What the miner gRPC service promises its callers: every call is one   *)
(* atomic step against the canister's record of this node. A register or *)
(* unregister either applies the caller's own request and replies the ok *)
(* text, or changes nothing and replies an error; a status query replies *)
(* the node type of the record at one moment. The process may crash.     *)
(***************************************************************************)
EXTENDS Integers

CONSTANTS Callers, Principals, NodeTypes

Commits == {"set", "remove", "other"}
Request == [commit : Commits, type : NodeTypes, principal : Principals]
NoRequest == [commit |-> "none"]

Unregistered == [registered |-> FALSE, type |-> -1, principal |-> "none"]

\* The record the canister keeps after a set or a remove.
Recorded(r) ==
    IF r.commit = "set"
    THEN [registered |-> TRUE, type |-> r.type, principal |-> r.principal]
    ELSE Unregistered

Acknowledgement(r) == IF r.commit = "set" THEN "register ok" ELSE "unregister ok"

TypeName(t) ==
    CASE t = 0 -> "router" [] t = 1 -> "validator" [] t = 2 -> "computing"
      [] OTHER -> ""

VARIABLES
    node,     \* the canister's record of this node
    pending,  \* the register or unregister request each caller has in flight
    reply,    \* the last reply each caller got
    alive     \* the process runs

vars == <<node, pending, reply, alive>>

Init ==
    /\ node = Unregistered
    /\ pending = [c \in Callers |-> NoRequest]
    /\ reply = [c \in Callers |-> ""]
    /\ alive = TRUE

Idle(c) == alive /\ pending[c] = NoRequest

Call(c, r) ==
    /\ Idle(c) /\ r.commit \in {"set", "remove"}
    /\ pending' = [pending EXCEPT ![c] = r]
    /\ UNCHANGED <<node, reply, alive>>

Apply(c) ==
    /\ alive /\ pending[c] # NoRequest
    /\ node' = Recorded(pending[c])
    /\ reply' = [reply EXCEPT ![c] = Acknowledgement(pending[c])]
    /\ pending' = [pending EXCEPT ![c] = NoRequest]
    /\ UNCHANGED alive

Reject(c) ==
    /\ alive /\ pending[c] # NoRequest
    /\ reply' = [reply EXCEPT ![c] = "error"]
    /\ pending' = [pending EXCEPT ![c] = NoRequest]
    /\ UNCHANGED <<node, alive>>

\* A query (node type, e-power) or an unknown commit: a reply, no effect.
Answer(c) ==
    /\ Idle(c)
    /\ reply' \in {[reply EXCEPT ![c] = a] :
                      a \in {TypeName(node.type), "epower", "error", ""}}
    /\ UNCHANGED <<node, pending, alive>>

Crash ==
    /\ alive /\ alive' = FALSE
    /\ UNCHANGED <<node, pending, reply>>

Next ==
    \/ \E c \in Callers :
        \/ \E r \in Request : Call(c, r)
        \/ Apply(c) \/ Reject(c) \/ Answer(c)
    \/ Crash

Spec == Init /\ [][Next]_vars
=============================================================================
