-------------------------- MODULE ProjectLifecycle --------------------------
(***************************************************************************)
(* What the project commands promise, whatever the interleaving of the     *)
(* requests: a command, named by its actor and Idempotency-Key, is applied *)
(* at most once; applying it moves the project along the workflow or, when *)
(* another command was faster, leaves it alone; nothing else moves it.     *)
(***************************************************************************)
EXTENDS ProjectStatus

CONSTANTS Projects, CommandIds

VARIABLES
    status,     \* status[p] is the status of project p
    applied     \* the commands that have taken effect

vars == <<status, applied>>

Init ==
    /\ status \in [Projects -> Status]
    /\ applied = {}

Move(p, cmd) ==
    /\ status[p] \in Source(cmd)
    /\ \E s \in Targets(cmd) : status' = [status EXCEPT ![p] = s]

\* The project was moved by another command after this one was accepted.
Late == UNCHANGED status

Apply(id, p, cmd) ==
    /\ \A c \in applied : c.id # id
    /\ applied' = applied \cup {[id |-> id, project |-> p, cmd |-> cmd]}
    /\ Move(p, cmd) \/ Late

Next == \E id \in CommandIds, p \in Projects, cmd \in Command : Apply(id, p, cmd)

Spec == Init /\ [][Next]_vars
=============================================================================
