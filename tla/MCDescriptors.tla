---------------------------- MODULE MCDescriptors ----------------------------
(* Values for model checking ServerDescriptors.                            *)
EXTENDS ServerDescriptors

(* A list whose first address is good need not go on.                      *)
MCFailure == {"no socket", "no bind"}
MCGoodAddress == {<<"good">>}
MCAddressLists ==
  MCGoodAddress \cup {<<a>> : a \in MCFailure}
                \cup {<<a, b>> : a \in MCFailure, b \in MCFailure \cup {"good"}}
==============================================================================
