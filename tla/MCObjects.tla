----------------------------- MODULE MCObjects -----------------------------
(***************************************************************************)
(* Leaf owns nothing, Node owns a Leaf and knows another, Box inherits     *)
(* Node and owns a slice.  The program makes leaves, boxes and raw memory. *)
(***************************************************************************)
EXTENDS Objects, TLC

CONSTANTS Object, Leaf, Node, Box, child, link, label

mc_Classes    == {Object, Leaf, Node, Box}
mc_Allocated  == {Leaf, Box}
mc_Fields     == {child, link, label}
mc_kind       == (child :> "ptr") @@ (link :> "ptr") @@ (label :> "slice")
mc_descriptor == (child :> Leaf) @@ (link :> Leaf) @@ (label :> None)
mc_ancestors  == (Object :> <<Object>>) @@ (Leaf :> <<Object, Leaf>>)
                   @@ (Node :> <<Object, Node>>) @@ (Box :> <<Object, Node, Box>>)
mc_declares   == (Object :> {}) @@ (Leaf :> {}) @@ (Node :> {child, link})
                   @@ (Box :> {label})

\* The label is a slice of bytes, or of pointers like the items of a list in
\* std/anti/collection.anti.
mc_width   == [f \in mc_Fields |-> IF f = label THEN 1 ELSE 8]
wide_width == [f \in mc_Fields |-> 8]
=============================================================================
