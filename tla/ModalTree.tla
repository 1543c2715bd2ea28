----------------------------- MODULE ModalTree -----------------------------
(***************************************************************************)
(* What windows that block their owner promise, whatever they are for: one *)
(* that is open takes no input exactly while a window it owns is open, and *)
(* no window outlives its owner.  AutomationPanel implements it with       *)
(* EnableWindow calls spread over three packages.                          *)
(***************************************************************************)
EXTENDS FiniteSets

CONSTANTS Windows, Nobody

VARIABLES
    owner,    \* for an open window, the window that owns it, or Nobody
    enabled   \* the windows that take the user's input

\* Windows without an owner may already be there
Init == \E open \in SUBSET Windows : owner = [w \in open |-> Nobody] /\ enabled = open

Open(w, o) ==
    /\ w \notin DOMAIN owner
    /\ o = Nobody \/ o \in enabled
    /\ owner' = [v \in DOMAIN owner \cup {w} |-> IF v = w THEN o ELSE owner[v]]
    /\ enabled' = (enabled \ {o}) \cup {w}

\* Closing some windows closes those they own and gives the input back
Close(closed) ==
    /\ closed # {} /\ closed \subseteq DOMAIN owner
    /\ \A w \in DOMAIN owner : owner[w] \in closed => w \in closed
    /\ owner' = [w \in DOMAIN owner \ closed |-> owner[w]]
    /\ enabled' = (enabled \cup ({owner[w] : w \in closed} \ {Nobody})) \ closed

Next ==
    \/ \E w \in Windows, o \in Windows \cup {Nobody} : Open(w, o)
    \/ \E closed \in SUBSET Windows : Close(closed)

Spec == Init /\ [][Next]_<<owner, enabled>>
=============================================================================
