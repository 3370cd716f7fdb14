----------------------------- MODULE Dictionary -----------------------------
(***************************************************************************)
(* What src/3rd_party/value.h promises of VALUE_DICT, whatever the data    *)
(* structure: a set of items, one for each class of keys that compare      *)
(* equal, listed in the order of insertion or in that of the keys.         *)
(***************************************************************************)
EXTENDS Integers, Sequences

CONSTANTS
  Key,
  Rank,      \* key |-> its place under the comparison; equal keys share one
  NULL

VARIABLES
  ordered,   \* VALUE_DICT_MAINTAINORDER, never changed
  listing,   \* the keys, each as it was first added, in the order of a walk
  fresh,     \* those whose value was never initialized
  reply      \* what the last call returned

dvars == <<ordered, listing, fresh, reply>>

Init == ordered \in BOOLEAN /\ listing = <<>> /\ fresh = {} /\ reply = NULL

(* The item a key denotes, if there is one. *)
Items(k) == {listing[n] : n \in {m \in DOMAIN listing : Rank[listing[m]] = Rank[k]}}

(* A new key goes behind all others, or between the lesser and the greater *)
(* ones.                                                                   *)
Insertion(k) ==
  \E place \in 0 .. Len(listing) :
    /\ ordered => place = Len(listing)
    /\ ~ordered => /\ \A n \in 1 .. place : Rank[listing[n]] < Rank[k]
                   /\ \A n \in place + 1 .. Len(listing) : Rank[k] < Rank[listing[n]]
    /\ listing' = SubSeq(listing, 1, place) \o <<k>> \o SubSeq(listing, place + 1, Len(listing))

GetOrAdd(k) ==
  \/ /\ Items(k) # {}
     /\ reply' \in Items(k)
     /\ UNCHANGED <<listing, fresh>>
  \/ /\ Items(k) = {}
     /\ Insertion(k) /\ fresh' = fresh \cup {k}
     /\ reply' = k
  \/ /\ Items(k) = {}              \* out of memory
     /\ reply' = NULL
     /\ UNCHANGED <<listing, fresh>>

(* "Returns NULL if the key is already used." *)
Add(k) ==
  \/ /\ Items(k) # {}
     /\ reply' = NULL
     /\ UNCHANGED <<listing, fresh>>
  \/ Items(k) = {} /\ GetOrAdd(k)

Initialize ==
  /\ \E k \in fresh : fresh' = fresh \ {k}
  /\ UNCHANGED <<listing, reply>>

Remove(k) ==
  \/ /\ Items(k) = {}
     /\ reply' = -1
     /\ UNCHANGED <<listing, fresh>>
  \/ /\ Items(k) # {}
     /\ reply' = 0
     /\ \E n \in DOMAIN listing :
          /\ listing[n] \in Items(k)
          /\ listing' = SubSeq(listing, 1, n - 1) \o SubSeq(listing, n + 1, Len(listing))
     /\ fresh' = fresh \ Items(k)

Clean == listing' = <<>> /\ fresh' = {} /\ UNCHANGED reply

Next ==
  /\ (\E k \in Key : GetOrAdd(k) \/ Add(k) \/ Remove(k)) \/ Initialize \/ Clean
  /\ UNCHANGED ordered

Spec == Init /\ [][Next]_dvars

=============================================================================
