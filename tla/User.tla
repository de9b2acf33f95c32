-------------------------------- MODULE User --------------------------------
(***************************************************************************)
(* User.h: one object per participant, named here by the participant it    *)
(* was made for.  It holds the username, the flag isTransfering under      *)
(* transfer_complete_mutex, and the promise/future pair by which the       *)
(* recipient's own thread hands its decision to the uploader's thread.     *)
(* The operators below are the member functions; each is one atomic step,  *)
(* either under the object's mutex or, for the promise and the future, at  *)
(* the grain of one member call.                                           *)
(***************************************************************************)
EXTENDS Naturals, Sequences, FiniteSets

CONSTANTS
    Clients,   \* the clients, each of which connects at most once
    Host,      \* the person at the server's console
    Names,     \* the usernames people choose
    HostName,  \* the host's
    Anon,      \* "</Anon> ", the name of a User that has not logged in
    Blank      \* "", what decrypt makes of a packet it cannot open

Users == Clients \cup {Host}
Usernames == Names \cup {Anon, Blank}

ASSUME UsersAssumption == Host \notin Clients /\ IsFiniteSet(Clients)
ASSUME NamesAssumption == HostName \in Names /\ Anon \notin Names /\ Blank \notin Names
                          /\ Anon # Blank

VARIABLES
    username,       \* username[u]: the member username
    isTransfering,  \* isTransfering[u]: u takes part in a negotiation
    decision,       \* decision[u]: what transferDecisionPromise has been set to
    futureTaken     \* futureTaken[u]: a get() has moved the future out

userVars == <<username, isTransfering, decision, futureTaken>>

UserTypeOK ==
    /\ username \in [Users -> Usernames]
    /\ isTransfering \in [Users -> BOOLEAN]
    /\ decision \in [Users -> {"none", "yes", "no"}]
    /\ futureTaken \in [Users -> BOOLEAN]

UserInit ==
    /\ username = [u \in Users |-> IF u = Host THEN HostName ELSE Anon]
    /\ isTransfering = [u \in Users |-> FALSE]
    /\ decision = [u \in Users |-> "none"]
    /\ futureTaken = [u \in Users |-> FALSE]

setUsername(u, n) == username' = [username EXCEPT ![u] = n]

signalStartOfTransfer(u) == isTransfering' = [isTransfering EXCEPT ![u] = TRUE]

signalEndOfTransfer(u) == isTransfering' = [isTransfering EXCEPT ![u] = FALSE]

(* set_value: throws promise_already_satisfied unless decision[u] = "none" *)
setTransferDecision(u, d) ==
    /\ decision[u] = "none"
    /\ decision' = [decision EXCEPT ![u] = d]

(* a future that get() leaves in place *)
copyFuture(u) == futureTaken' = [futureTaken EXCEPT ![u] = TRUE]

(* awaitDecision, first half: get() moves the future out before it blocks, *)
(* so that a second get() throws no_state                                  *)
takeFuture(u) ==
    /\ ~futureTaken[u]
    /\ futureTaken' = [futureTaken EXCEPT ![u] = TRUE]

(* awaitDecision, second half: get() has returned, resetTransfer *)
resetTransfer(u) ==
    /\ decision' = [decision EXCEPT ![u] = "none"]
    /\ futureTaken' = [futureTaken EXCEPT ![u] = FALSE]

=============================================================================
