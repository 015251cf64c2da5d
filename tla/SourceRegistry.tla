--------------------------- MODULE SourceRegistry ---------------------------
(***************************************************************************)
(* What the upload boundary of a project promises, whatever the order of   *)
(* its requests: an object is written once and never replaced, some bytes  *)
(* are registered as a source at most once and for good, and the path they *)
(* are registered under holds exactly those bytes.                         *)
(***************************************************************************)
EXTENDS Sequences

CONSTANTS Contents, Paths, Nothing

VARIABLES
    held,           \* what lies at each path
    registered      \* the sources, in the order of their registration

vars == <<held, registered>>

Init ==
    /\ held \in [Paths -> Contents \union {Nothing}]
    /\ registered = <<>>

Store(p, c) ==
    /\ held[p] = Nothing
    /\ held' = [held EXCEPT ![p] = c]
    /\ UNCHANGED registered

Register(c, p) ==
    /\ \A i \in DOMAIN registered : registered[i].content # c
    /\ held[p] = c
    /\ registered' = Append(registered, [content |-> c, path |-> p])
    /\ UNCHANGED held

Next == \E c \in Contents, p \in Paths : Store(p, c) \/ Register(c, p)

Spec == Init /\ [][Next]_vars
=============================================================================
