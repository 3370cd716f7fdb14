-------------------------------- MODULE Batch --------------------------------
(***************************************************************************)
(* What a batch documentation tool promises, whatever its inner workings:  *)
(* it settles what to publish before it handles the first input, publishes *)
(* only when it has handled all it ever will, and ends well only if it     *)
(* published exactly what was wanted, or was asked for nothing at all.     *)
(***************************************************************************)
CONSTANTS
  Generators,   \* kinds of output
  Verdicts      \* ways to end that promise nothing

VARIABLES
  wanted,       \* the outputs asked for
  handled,      \* the inputs documented or complained about
  published,    \* the outputs that are complete
  verdict       \* "running", "success" or one of Verdicts

bvars == <<wanted, handled, published, verdict>>

Init ==
  /\ wanted = {} /\ handled = {} /\ published = {}
  /\ verdict = "running"

Ask(w) ==
  /\ verdict = "running" /\ handled = {} /\ published = {}
  /\ wanted' = w
  /\ UNCHANGED <<handled, published, verdict>>

Handle ==
  /\ verdict = "running" /\ published = {}
  /\ \E h \in handled' : handled' = handled \cup {h}
  /\ UNCHANGED <<wanted, published, verdict>>

Publish(g) ==
  /\ verdict = "running" /\ handled # {}
  /\ g \in wanted \ published
  /\ published' = published \cup {g}
  /\ UNCHANGED <<wanted, handled, verdict>>

Succeed ==
  /\ verdict = "running"
  /\ handled # {} => published = wanted
  /\ verdict' = "success"
  /\ UNCHANGED <<wanted, handled, published>>

GiveUp(v) ==
  /\ verdict = "running"
  /\ verdict' = v
  /\ UNCHANGED <<wanted, handled, published>>

Next ==
  \/ \E w \in SUBSET Generators : Ask(w)
  \/ Handle
  \/ \E g \in Generators : Publish(g)
  \/ Succeed
  \/ \E v \in Verdicts : GiveUp(v)

Spec == Init /\ [][Next]_bvars

=============================================================================
