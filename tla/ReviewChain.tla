----------------------------- MODULE ReviewChain -----------------------------
(***************************************************************************)
(* What the recorded review of a project promises.  Its chain starts with  *)
(* a baseline nobody has answered, grows by one revision at a time, and    *)
(* each revision answers one connection never answered before and leaves   *)
(* every other connection, and every recorded address, as it was.  The     *)
(* project points only at a connection whose recorded decision is AUTO.    *)
(***************************************************************************)
EXTENDS ReviewSnapshot

CONSTANT None

VARIABLES
    chain,      \* chain[n + 1] is review revision n
    pointer     \* the connection whose drawing the project points at

Init == chain = <<>> /\ pointer = None

Open ==
    /\ chain = <<>>
    /\ \E e \in Evidence : chain' = <<Baseline(e)>>
    /\ UNCHANGED pointer

Answer ==
    /\ chain # <<>>
    /\ LET last == chain[Len(chain)]
       IN  \E k \in DOMAIN last, d \in Decision :
            /\ last[k].processed = Never
            /\ chain' = Append(chain, Resolved(last, k, d, Len(chain)))
    /\ UNCHANGED pointer

Deliver ==
    /\ \E n \in 2..Len(chain) : \E k \in Advanced(chain[n], n - 1) :
        chain[n][k].decision = "AUTO" /\ pointer' = k
    /\ UNCHANGED chain

Next == Open \/ Answer \/ Deliver

Spec == Init /\ [][Next]_<<chain, pointer>>
=============================================================================
