------------------------------ MODULE Broadcast -----------------------------
(***************************************************************************)
(* What broadcastMessage and broadcastMessageExceptSender promise, without *)
(* threads, a mutex or an index: one message at a time is on the air, it   *)
(* gets to every member once, and a member is passed over only if it takes *)
(* part in a transfer or has sent the message itself.  While a message is  *)
(* on the air nobody enters or leaves, and what is said aside is not       *)
(* public.  A public message goes on the air once, so that any two people  *)
(* hear public messages in one order.  ChatRoom.tla implements this        *)
(* module.                                                                 *)
(***************************************************************************)
EXTENDS SequencesExt

CONSTANTS
    People,  \* everybody who may ever be a member
    Public   \* the messages for everybody; m.from is who has sent m

VARIABLES
    members,  \* who is in the room
    busy,     \* who takes part in a transfer
    gone,     \* whose connection is closed
    air,      \* the message on the air, if there is one: {m} or {}
    told,     \* the members that have been dealt with
    heard     \* heard[u]: what u has been sent and has not forgotten

vars == <<members, busy, gone, air, told, heard>>

Init ==
    /\ members \subseteq People
    /\ busy = {}
    /\ gone = {}
    /\ air = {}
    /\ told = {}
    /\ heard = [u \in People |-> <<>>]

Enter(u) ==
    /\ air = {}
    /\ u \notin members
    /\ members' = members \cup {u}
    /\ UNCHANGED <<busy, gone, air, told, heard>>

Leave(u) ==
    /\ air = {}
    /\ members' = members \ {u}
    /\ UNCHANGED <<busy, gone, air, told, heard>>

(* transfers begin and end, connections close *)
Change ==
    /\ busy' \subseteq People
    /\ gone \subseteq gone'
    /\ UNCHANGED <<members, air, told, heard>>

(* a message that nobody has yet goes on the air *)
Start ==
    /\ air = {}
    /\ \E m \in air' :
          /\ air' = {m}
          /\ m \in Public => \A u \in People : m \notin ToSet(heard[u])
    /\ UNCHANGED <<members, busy, gone, told, heard>>

Tell(u) ==
    /\ u \in members \ told
    /\ told' = told \cup {u}
    /\ \E m \in air :
          \/ heard' = [heard EXCEPT ![u] = Append(@, m)]
          \/ u \in gone /\ UNCHANGED heard
    /\ UNCHANGED <<members, busy, gone, air>>

Pass(u) ==
    /\ u \in members \ told
    /\ told' = told \cup {u}
    /\ \E m \in air : m \in Public => u \in busy \/ u = m.from
    /\ UNCHANGED <<members, busy, gone, air, heard>>

Stop ==
    /\ air # {}
    /\ told = members
    /\ air' = {}
    /\ told' = {}
    /\ UNCHANGED <<members, busy, gone, heard>>

(* something is said to some, apart from what is on the air *)
Aside ==
    /\ DOMAIN heard' = People
    /\ \A u \in People :
          \/ heard'[u] = heard[u]
          \/ /\ heard'[u] # <<>>
             /\ heard'[u] = Append(heard[u], Last(heard'[u]))
             /\ Last(heard'[u]) \notin Public
    /\ UNCHANGED <<members, busy, gone, air, told>>

(* somebody forgets the oldest of what he has heard *)
Forget(u) ==
    /\ \E k \in 1..Len(heard[u]) :
          heard' = [heard EXCEPT ![u] = SubSeq(@, k + 1, Len(@))]
    /\ UNCHANGED <<members, busy, gone, air, told>>

Next ==
    \/ \E u \in People : Enter(u) \/ Leave(u) \/ Tell(u) \/ Pass(u) \/ Forget(u)
    \/ Start \/ Stop \/ Change \/ Aside

Spec == Init /\ [][Next]_vars

=============================================================================
