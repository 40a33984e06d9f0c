------------------------------- MODULE Checkout -------------------------------
(***************************************************************************)
(* What git sync promises of the served checkout (README.md, "Optional git *)
(* sync"): its users and the remote do as they like, and everything the    *)
(* service ever does to it is to fast-forward the branch that is checked   *)
(* out to a commit the remote has published.                               *)
(***************************************************************************)
EXTENDS Naturals

CONSTANTS
    Branches,      \* branches of the checkout and of its remote
    Commits,       \* commits
    Ancestors,     \* the commits reachable from a commit, itself included
    First          \* the commit everything starts from

VARIABLES
    remote,        \* the remote's branches
    published,     \* the commits the remote has ever had
    heads,         \* the local branches
    current,       \* the branch that is checked out
    dirty,         \* whether tracked files differ from its head
    userActs       \* how often users did something: the service cannot pass for one of them

vars == <<remote, published, heads, current, dirty, userActs>>

Init ==
    /\ remote = [b \in Branches |-> First]
    /\ published = {First}
    /\ heads = [b \in Branches |-> First]
    /\ current \in Branches
    /\ dirty = FALSE
    /\ userActs = 0

\* Somebody pushes, or force-pushes
Push(b, c) ==
    /\ remote' = [remote EXCEPT ![b] = c]
    /\ published' = published \cup {c}
    /\ UNCHANGED <<heads, current, dirty, userActs>>

\* A user edits, commits, pulls, resets or checks out another branch
UserActs ==
    /\ heads' \in [Branches -> Commits]
    /\ \A b \in Branches \ {current} : heads'[b] = heads[b]
    /\ current' \in Branches
    /\ dirty' \in BOOLEAN
    /\ userActs' = userActs + 1
    /\ UNCHANGED <<remote, published>>

\* The service moves the head of the checked-out branch forward, and keeps local edits
FastForward(c) ==
    /\ c \in published
    /\ heads[current] \in Ancestors[c]
    /\ heads' = [heads EXCEPT ![current] = c]
    /\ UNCHANGED <<remote, published, current, dirty, userActs>>

Next ==
    \/ \E b \in Branches, c \in Commits : Push(b, c)
    \/ UserActs
    \/ \E c \in Commits : FastForward(c)

Spec == Init /\ [][Next]_vars

=============================================================================
