----------------------------- MODULE MCProcesses -----------------------------
(***************************************************************************)
(* What runs in processes and threads of its own, side by side: the        *)
(* protocol of the sealed channel, with two threads and requests of which  *)
(* two share a key, two share a nonce, one belongs to another principal,   *)
(* one was altered and two are refused by build_request, called too early, *)
(* in time and too late; its pipe, with two threads of the kernel and one  *)
(* of another user, the worker and an administrator, whom the DACL lets    *)
(* connect too; and two scripts that have replays run by fresh workers,    *)
(* each version of whose file asks for another cassette.                   *)
(***************************************************************************)
EXTENDS SealedIpc, SecurePipe, ReplayQualification, TLC

CONSTANTS s1, s2, s3, client, other

VARIABLE moving     \* the part that a behaviour is about

Cap(principal, issued, expires, nonce, key) ==
    [principal |-> principal, issued |-> issued, expires |-> expires,
     nonce |-> nonce, key |-> key]

First == Cap("worker", 1, 2, "n1", "k1")
SameKey == Cap("worker", 0, 3, "n2", "k1")
SameNonce == Cap("worker", 0, 3, "n1", "k2")
Others == Cap("other", 0, 3, "n2", "k2")

MCCapability == {First, SameKey, SameNonce, Others}

Req(cap, form) == [capability |-> cap, commitment |-> "work", form |-> form]

MCRequest ==
    {Req(cap, "built") : cap \in MCCapability} \cup
    {Req(SameNonce, "altered"), Req(SameKey, "malformed"), Req(SameNonce, "mislabelled")}

(* The threads of the protocol and the scripts are interchangeable. *)
Symmetry == Permutations(Caller) \cup Permutations(Qualifier)

MCProcessSid == (s1 :> "kernel") @@ (s2 :> "kernel") @@ (s3 :> "user")

MCClientSid == (client :> "worker") @@ (other :> "administrator")

OwnInput(m) == m

(* One version is as good as another to begin with. *)
Original == tree = "v1" /\ main = "m1"

-----------------------------------------------------------------------------
MCInit ==
    /\ moving \in {"protocol", "pipe", "scripts"}
    /\ Init /\ PipeInit
    /\ ReplayInit /\ Original

(* The ledger is full at its bound, a pipe may wait for a client that does *)
(* not come, and scripts end; but only these when all of them have.        *)
MayStop == moving = "scripts" => Ended

MCNext ==
    /\ UNCHANGED moving
    /\ \/ moving = "protocol" /\ Next /\ UNCHANGED <<pipeVars, replayVars>>
       \/ moving = "pipe" /\ PipeNext /\ UNCHANGED <<vars, replayVars>>
       \/ moving = "scripts" /\ ReplayNext /\ UNCHANGED <<vars, pipeVars>>
       \/ MayStop /\ UNCHANGED <<vars, pipeVars, replayVars>>

MCSpec == MCInit /\ [][MCNext]_<<vars, pipeVars, replayVars, moving>>

=============================================================================
