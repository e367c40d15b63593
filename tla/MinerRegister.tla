---------------------------- MODULE MinerRegister ----------------------------
(***************************************************************************)
(* The miner gRPC service (miner/miner_service.go): MinerRegiser,        *)
(* GetMinerStatus and GetCurrentEPower, served concurrently for several  *)
(* gRPC callers, against                                                   *)
(* the miner canister's record of this node. The canister and its agent  *)
(* are not in this repository: a canister call is one atomic step whose  *)
(* reply may be an error.                                                 *)
(***************************************************************************)
EXTENDS Integers

CONSTANTS
    Callers,     \* concurrent gRPC callers (model values)
    Principals,  \* wallet principals a request may carry
    NodeTypes,   \* values of req.Type the canister accepts
    MaxCalls     \* bound on the requests each caller sends

ASSUME MaxCalls \in Nat \ {0}

Commits == {"set", "remove", "other"}
Request == [commit : Commits, type : NodeTypes, principal : Principals]
Results == {"", "register ok", "unregister ok", "error", "epower"}

\* The switch of GetMiner: the canister's node type as a name; a negative
\* type (no node) and an unknown one both give "".
NodeTypeName(t) ==
    CASE t = 0 -> "router"
      [] t = 1 -> "validator"
      [] t = 2 -> "computing"
      [] OTHER -> ""

VARIABLES
    secret,    \* the ICP identity key: "ok", "missing", "corrupt"
    node,      \* the canister's record of this node
    pc,        \* handler of each caller: "idle", "call", "done"
    req,       \* the request being served for each caller
    reply,     \* the result returned to each caller
    calls,     \* requests sent by each caller so far
    panicked   \* a handler panicked, which ends the process

vars == <<secret, node, pc, req, reply, calls, panicked>>

NoNode == [registered |-> FALSE, type |-> -1, principal |-> "none"]

TypeOK ==
    /\ secret \in {"ok", "missing", "corrupt"}
    /\ node \in [registered : BOOLEAN, type : NodeTypes \cup {-1},
                 principal : Principals \cup {"none"}]
    /\ pc \in [Callers -> {"idle", "call", "done"}]
    /\ req \in [Callers -> Request]
    /\ reply \in [Callers -> Results \cup {"router", "validator", "computing"}]
    /\ calls \in [Callers -> 0..MaxCalls]
    /\ panicked \in BOOLEAN

Init ==
    /\ secret \in {"ok", "missing", "corrupt"}
    /\ node = NoNode
    /\ pc = [c \in Callers |-> "idle"]
    /\ req \in [Callers -> Request]
    /\ reply = [c \in Callers |-> ""]
    /\ calls = [c \in Callers |-> 0]
    /\ panicked = FALSE

Alive == ~panicked

\* GetIdentity returns nil when the secret is missing, and with a corrupt
\* key BytesToEd25519PrivateKey's ignored error leaves a nil key whose
\* Seed() fails; MinerRegiser then uses the identity unchecked.
IdentityUsable == secret = "ok"

(***************************************************************************)
(* MinerRegiser, up to the canister call: the identity, then the commit. *)
(***************************************************************************)
Receive(c, r) ==
    /\ Alive /\ pc[c] = "idle" /\ calls[c] < MaxCalls
    /\ calls' = [calls EXCEPT ![c] = @ + 1]
    /\ req' = [req EXCEPT ![c] = r]
    /\ \/ ~IdentityUsable /\ panicked' = TRUE /\ UNCHANGED <<pc, reply>>
       \/ /\ IdentityUsable /\ r.commit \in {"set", "remove"}
          /\ pc' = [pc EXCEPT ![c] = "call"]
          /\ UNCHANGED <<reply, panicked>>
       \/ /\ IdentityUsable /\ r.commit = "other"
          /\ pc' = [pc EXCEPT ![c] = "done"]
          /\ reply' = [reply EXCEPT ![c] = ""]
          /\ UNCHANGED panicked
    /\ UNCHANGED <<secret, node>>

\* The canister's effect of RegisterNode / UnRegisterNode.
Effect(r) ==
    IF r.commit = "set"
    THEN [registered |-> TRUE, type |-> r.type, principal |-> r.principal]
    ELSE NoNode

OkResult(r) == IF r.commit = "set" THEN "register ok" ELSE "unregister ok"

\* Mutant: the error of the canister call is not copied into the result.
CanisterCallIgnoreError(c) ==
    /\ Alive /\ pc[c] = "call"
    /\ \E ok \in BOOLEAN :
        /\ node' = IF ok THEN Effect(req[c]) ELSE node
        /\ reply' = [reply EXCEPT ![c] = OkResult(req[c])]
    /\ pc' = [pc EXCEPT ![c] = "done"]
    /\ UNCHANGED <<secret, req, calls, panicked>>

\* RegisterNode or UnRegisterNode, and the result string: the ok text,
\* replaced by err.Error() when the call failed.
CanisterCall(c) ==
    /\ Alive /\ pc[c] = "call"
    /\ \/ /\ node' = Effect(req[c])
          /\ reply' = [reply EXCEPT ![c] = OkResult(req[c])]
       \/ /\ UNCHANGED node
          /\ reply' = [reply EXCEPT ![c] = "error"]
    /\ pc' = [pc EXCEPT ![c] = "done"]
    /\ UNCHANGED <<secret, req, calls, panicked>>

\* GetMinerStatus / GetMiner: MyNode, then the node type switch.
GetMinerStatus(c) ==
    /\ Alive /\ pc[c] = "idle" /\ calls[c] < MaxCalls
    /\ calls' = [calls EXCEPT ![c] = @ + 1]
    /\ \/ reply' = [reply EXCEPT ![c] = NodeTypeName(node.type)]
       \/ reply' = [reply EXCEPT ![c] = "error"]
    /\ pc' = [pc EXCEPT ![c] = "done"]
    /\ UNCHANGED <<secret, node, req, panicked>>

\* GetCurrentEPower: MyCurrentEPower, then MyStack, each a canister read
\* whose error is returned; neither changes the canister's record.
GetCurrentEPower(c) ==
    /\ Alive /\ pc[c] = "idle" /\ calls[c] < MaxCalls
    /\ calls' = [calls EXCEPT ![c] = @ + 1]
    /\ reply' = [reply EXCEPT ![c] = "epower"] \/ reply' = [reply EXCEPT ![c] = "error"]
    /\ pc' = [pc EXCEPT ![c] = "done"]
    /\ UNCHANGED <<secret, node, req, panicked>>

\* The caller reads the reply and may send its next request.
Respond(c) ==
    /\ Alive /\ pc[c] = "done"
    /\ pc' = [pc EXCEPT ![c] = "idle"]
    /\ UNCHANGED <<secret, node, req, reply, calls, panicked>>

Done ==
    /\ ~Alive \/ \A c \in Callers : pc[c] = "idle" /\ calls[c] = MaxCalls
    /\ UNCHANGED vars

Next ==
    \/ \E c \in Callers :
        \/ \E r \in Request : Receive(c, r)
        \/ CanisterCall(c) \/ GetMinerStatus(c) \/ GetCurrentEPower(c)
        \/ Respond(c)
    \/ Done

Spec == Init /\ [][Next]_vars

-----------------------------------------------------------------------------
\* The service implements MinerRegistry: every call of every caller,
\* however the handlers interleave and whichever canister calls fail, is
\* one atomic step in which the reply and the canister's record change
\* together and follow the caller's own request. A register or unregister
\* is in flight from the commit switch of MinerRegiser to its reply.
Registry == INSTANCE MinerRegistry WITH
    pending <- [c \in Callers |->
                   IF pc[c] = "call" THEN req[c] ELSE [commit |-> "none"]],
    alive <- ~panicked
RegistryRefinement == Registry!Spec

\* A MinerRegiser call never takes the process down: a missing or corrupt
\* identity key is an error, not a panic.
NoRegisterPanic == ~panicked
=============================================================================
