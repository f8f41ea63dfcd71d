-------------------------------- MODULE Cache --------------------------------
(***************************************************************************)
(* What the metadata hub promises its readers (internal/domain/hub): what  *)
(* it shows for a name is what one client saw of one origin in one fetch:  *)
(* values the origin held meanwhile, that it was missing when the client   *)
(* came, or nothing.  It may be old by now, it may mix several values of   *)
(* an origin that kept changing, and two clients may store in the other    *)
(* order than they fetched; but it was never made up, mixed from two       *)
(* origins or left from an earlier fetch.                                  *)
(***************************************************************************)
CONSTANTS Origin, Key, Client, Value, Missing

VARIABLES
    held,     \* what each origin holds, or held last
    there,    \* whether it is there
    fetch,    \* per client its fetch, if any: key, origin, what was seen
    shown     \* per key what is shown, if anything: the origin and what was seen

vars == <<held, there, fetch, shown>>

Seen == SUBSET (Value \cup {Missing})
Fetch == [key : Key, origin : Origin, seen : Seen]

TypeOK ==
    /\ held \in [Origin -> Value]
    /\ there \in [Origin -> BOOLEAN]
    /\ fetch \in [Client -> {{}} \cup {{f} : f \in Fetch}]
    /\ shown \in [Key -> {{}} \cup {{s} : s \in Origin \X Seen}]

Init ==
    /\ held \in [Origin -> Value]
    /\ there \in [Origin -> BOOLEAN]
    /\ fetch = [c \in Client |-> {}]
    /\ shown = [k \in Key |-> {}]

\* Origin o comes to hold something else, is gone, or is back.
Becomes(o, is) ==
    /\ there' = [there EXCEPT ![o] = is]
    /\ \E v \in Value : held' = [held EXCEPT ![o] = v]

Change(o) ==
    /\ \E is \in BOOLEAN : Becomes(o, is)
    /\ UNCHANGED <<fetch, shown>>

\* Looking for an origin may make it; one that is not there is seen to be missing.
Begin(c) ==
    /\ fetch[c] = {}
    /\ \E k \in Key, o \in Origin, is \in BOOLEAN :
           /\ fetch' = [fetch EXCEPT ![c] =
                  {[key |-> k, origin |-> o, seen |-> IF is THEN {} ELSE {Missing}]}]
           /\ Becomes(o, is)
    /\ UNCHANGED shown

\* A client that has found an origin sees it even when it was taken away since.
See(c) ==
    /\ \E f \in fetch[c] :
           fetch' = [fetch EXCEPT ![c] = {[f EXCEPT !.seen = @ \cup {held[f.origin]}]}]
    /\ UNCHANGED <<held, there, shown>>

Store(c) ==
    /\ \E f \in fetch[c] : shown' = [shown EXCEPT ![f.key] = {<<f.origin, f.seen>>}]
    /\ fetch' = [fetch EXCEPT ![c] = {}]
    /\ UNCHANGED <<held, there>>

GiveUp(c) ==
    /\ fetch[c] # {}
    /\ fetch' = [fetch EXCEPT ![c] = {}]
    /\ UNCHANGED <<held, there, shown>>

Forget(k) ==
    /\ shown' = [shown EXCEPT ![k] = {}]
    /\ UNCHANGED <<held, there, fetch>>

Next ==
    \/ \E o \in Origin : Change(o)
    \/ \E c \in Client : Begin(c) \/ See(c) \/ Store(c) \/ GiveUp(c)
    \/ \E k \in Key : Forget(k)

Spec == Init /\ [][Next]_vars
=============================================================================
