------------------------------- MODULE PubSub -------------------------------
(***************************************************************************)
(* What a service of src/server promises the Server that owns it: a set of *)
(* members that changes only by the Server's own calls.  How a member is   *)
(* held while it waits for its snapshot (src/server/service.rs,            *)
(* new_subscribes) and when the service thread moves it is not visible at  *)
(* this level.                                                             *)
(***************************************************************************)
CONSTANT Conn

VARIABLES
    tasks,          \* the connections whose task runs
    connected,      \* Server.connections
    members,        \* the connections the service serves
    open            \* FALSE once the Server has started to drop the service

vars == <<tasks, connected, members, open>>

Init ==
    /\ tasks = {} /\ connected = {}
    /\ members = {}
    /\ open = TRUE

\* Connection::start of a new connection.
Start(c) ==
    /\ c \notin tasks
    /\ tasks' = tasks \cup {c}
    /\ UNCHANGED <<connected, members, open>>

\* Server::add_connection, with or without the permission for this service.
Enter(c) ==
    /\ open
    /\ c \in tasks
    /\ connected' = connected \cup {c}
    /\ members' \in {members, members \cup {c}}
    /\ UNCHANGED <<tasks, open>>

\* Server::subscribe(.., sub) by a running connection, added or not.
Subscribe(c) ==
    /\ open
    /\ c \in tasks
    /\ members' = members \cup {c}
    /\ UNCHANGED <<tasks, connected, open>>

Unsubscribe(c) ==
    /\ open
    /\ c \in tasks
    /\ members' = members \ {c}
    /\ UNCHANGED <<tasks, connected, open>>

\* Server::remove_connection, the end of the task.
Leave(c) ==
    /\ open
    /\ c \in tasks
    /\ tasks' = tasks \ {c} /\ connected' = connected \ {c}
    /\ members' = members \ {c}
    /\ UNCHANGED open

\* Drop of the Server: the services are joined, nobody is unsubscribed.
Close ==
    /\ open
    /\ open' = FALSE
    /\ UNCHANGED <<tasks, connected, members>>

Next ==
    \/ \E c \in Conn : Start(c) \/ Enter(c) \/ Subscribe(c) \/ Unsubscribe(c) \/ Leave(c)
    \/ Close

Spec == Init /\ [][Next]_vars
=============================================================================
