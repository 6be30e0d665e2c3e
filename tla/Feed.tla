-------------------------------- MODULE Feed --------------------------------
(***************************************************************************)
(* What refreshing promises: the result kept for a subscription is one its *)
(* own URL gave, and there is none for a name that is no subscription.     *)
(***************************************************************************)
EXTENDS Naturals

CONSTANTS Name, Url, None

VARIABLES
    subs,   \* the URL of each subscription; None for a name that is none
    res,    \* the result kept for each name, or None
    strict  \* FALSE when a result may be of a URL the name had before

vars == <<subs, res, strict>>

Result  == [url : Url, at : Nat]
Listing == [Name -> Url \union {None}]
Nothing == [n \in Name |-> None]

Init == subs \in Listing /\ res = Nothing

Add(n, u) == subs[n] = None /\ subs' = [subs EXCEPT ![n] = u] /\ UNCHANGED res

Delete(n) == subs' = [subs EXCEPT ![n] = None] /\ res' = [res EXCEPT ![n] = None]

\* A result arrives, or some are found that were kept elsewhere.
Get == /\ UNCHANGED subs /\ res' \in [Name -> Result \union {None}]
       /\ \A n \in Name : res'[n] # res[n] =>
            res'[n] # None /\ subs[n] # None /\ (strict => res'[n].url = subs[n])

Restart == subs' \in Listing /\ res' = Nothing

Next == /\ UNCHANGED strict
        /\ \/ Get \/ Restart
           \/ \E n \in Name : Delete(n) \/ \E u \in Url : Add(n, u)

Spec == Init /\ [][Next]_vars
=============================================================================
