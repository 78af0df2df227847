------------------------------ MODULE PbcFiles ------------------------------
(* What pbc_register promises (register.c): of the files it is given it      *)
(* registers as many as it can, each after the files it needs, and it says   *)
(* "ok" only if nothing is left and "register dependency error" only if      *)
(* nothing that is left can be registered.                                   *)
CONSTANTS
  Needs,  \* the files each file needs
  Asks    \* the sets of files it is given

VARIABLES
  known,   \* the files that are registered
  asked,   \* the files it was given and has still to look at
  busy,    \* it was called and has not returned
  answer   \* its last answer

vars == <<known, asked, busy, answer>>

Init == known = {} /\ asked = {} /\ busy = FALSE /\ answer = "none"

Ask ==
  /\ ~busy
  /\ asked' \in Asks
  /\ busy' = TRUE /\ answer' = "none"
  /\ UNCHANGED known

(* It was not given files at all.                                            *)
Reject ==
  /\ ~busy
  /\ answer' \in {"register empty", "register open fail",
                  "register open google.protobuf.FileDescriptorSet fail"}
  /\ UNCHANGED <<known, asked, busy>>

(* A file may have been given twice.                                         *)
Register(f) ==
  /\ busy
  /\ f \in asked \ known
  /\ Needs[f] \subseteq known
  /\ known' = known \cup {f}
  /\ asked' \in {asked, asked \ {f}}
  /\ UNCHANGED <<busy, answer>>

Left == asked \ known

Accept ==
  /\ busy /\ Left = {}
  /\ busy' = FALSE /\ asked' = {} /\ answer' = "ok"
  /\ UNCHANGED known

Refuse ==
  /\ busy /\ Left # {}
  /\ \A f \in Left : ~(Needs[f] \subseteq known)
  /\ busy' = FALSE /\ asked' = {} /\ answer' = "register dependency error"
  /\ UNCHANGED known

Next == Ask \/ Reject \/ (\E f \in asked : Register(f)) \/ Accept \/ Refuse

Spec == Init /\ [][Next]_vars
=============================================================================
