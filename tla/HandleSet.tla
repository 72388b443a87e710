----------------------------- MODULE HandleSet -----------------------------
(***************************************************************************)
(* What a handle pool promises: an allocation makes one new handle valid,  *)
(* for an entry that has no valid one, and hands it out; a release makes   *)
(* that one invalid; nothing else changes what is valid, and the pool      *)
(* reports that it is full exactly when every entry has a valid handle.    *)
(***************************************************************************)
CONSTANTS Entries, \* what handles are for
          Handles  \* records with the `index` of an entry

VARIABLES valid,     \* the handles that resolve
          handedOut, \* all handles the clients ever got
          full       \* the next allocation would be refused

setVars == <<valid, handedOut, full>>

AllInUse(handles) == \A i \in Entries : \E h \in handles : h.index = i

Init ==
  /\ valid = {}
  /\ handedOut = {}
  /\ (full <=> AllInUse({}))

Allocate(h) ==
  /\ ~full
  /\ \A v \in valid : v.index # h.index
  /\ valid' = valid \cup {h}
  /\ handedOut' = handedOut \cup {h}
  /\ (full' <=> AllInUse(valid'))

Release(h) ==
  /\ h \in valid \cap handedOut
  /\ valid' = valid \ {h}
  /\ UNCHANGED handedOut
  /\ (full' <=> AllInUse(valid'))

Next == \E h \in Handles : Allocate(h) \/ Release(h)

Spec == Init /\ [][Next]_setVars
=============================================================================
