---------------------------- MODULE MCChatSystem ----------------------------
(* Instances of ChatSystem: one client, which has just logged in, and the  *)
(* host, who may upload to it, answer it or close the server.              *)
EXTENDS MCChatRoom, ChatSystem

OnlyA == {a}
OneHandle == {h1}
ClientThreads == {"send", "recv"}

ClientSays ==
    [u \in Users |->
       IF u = Host THEN {One("yes"), One("end")} \cup Uploads({a})
                   ELSE {One("yes"), One("chat"), One("quit")} \cup Uploads({Host})]
ClientQuota == [u \in Users |-> IF u = Host THEN 1 ELSE 4]

(* the line "y", a line without a "y", /quit, an upload *)
Keys(s, y) == [kind |-> s.kind, arg |-> s.arg, yes |-> y]
ClientTypes ==
    [c \in Clients |-> {Keys(One("chat"), TRUE), Keys(One("chat"), FALSE),
                        Keys(One("quit"), FALSE), Keys(To("upload", hostName), TRUE)}]
OneLine == [c \in Clients |-> 1]

ServingSystemSpec == ServingInit /\ ClientInit /\ [][SystemNext]_systemVars
ServingSystemFairSpec == ServingSystemSpec /\ SystemFairness

=============================================================================
