------------------------------ MODULE MCServices -----------------------------
(***************************************************************************)
(* The shared resources, the tag knowledge, the Kepware control, the       *)
(* network inventory and the values of the historian on small instances.   *)
(* In the application they share no state, no lock and no file, so one run *)
(* checks them side by side: `focus' names the component that moves, and   *)
(* the others stay as they began.                                          *)
(***************************************************************************)
EXTENDS ResourceStore, TagKnowledge, KepwareControl, NetworkInventory, HistorianValues, TLC

CONSTANTS
    name,            \* the one file name of the resources
    upper, lower,    \* two networks
    lineA, lineB,    \* two lines
    tagA, tagB       \* two registered tags

VARIABLE focus

OneName == [p \in Profiles |-> name]

\* Kepware before the control has been there, with a device of that name which
\* is somebody else's, and with all of it in place but the tag changed.
Emptied == [n \in 1..4 |-> "absent"]
Foreign == [Emptied EXCEPT ![1] = "ours", ![2] = "foreign"]
Drifted == [n \in 1..4 |-> IF n = 4 THEN "drift" ELSE "ours"]
ThreeProjects == {Emptied, Foreign, Drifted}

\* Two networks that overlap in the only address, or one network.
Overlap == [n \in {upper, lower} |-> Addresses]
Single  == [n \in {upper} |-> Addresses]
TwoConfigs == {Overlap, Single}

AnyPing == {{}, {"online"}}

\* Two lines with a tag each; the second row in the line of the first, but with
\* the NodeId it had; without a line; and with the NodeId of the first.
Row(l, c, n) == [line |-> l, channel |-> c, device |-> "plc", node |-> <<n, 1>>]
Apart   == [t \in {tagA, tagB} |->
              IF t = tagA THEN Row(lineA, "ca", "ca") ELSE Row(lineB, "cb", "cb")]
Astray  == [Apart EXCEPT ![tagB] = Row(lineA, "ca", "cb")]
Unowned == [Apart EXCEPT ![tagB].line = NoLine]
Doubled == [Apart EXCEPT ![tagB].node = Apart[tagA].node]
FourRegistries == {Apart, Astray, Unowned, Doubled}

OneChannelEach == [l \in {lineA, lineB} |-> IF l = lineA THEN {"ca"} ELSE {"cb"}]

servicesVars == <<focus, resourceVars, knowledgeVars, kepwareVars, inventoryVars, valueVars>>

ServicesInit ==
    /\ focus \in {"resources", "knowledge", "kepware", "inventory", "values"}
    /\ ResourceInit /\ KnowledgeInit /\ KepwareInit /\ InventoryInit /\ ValuesInit
    /\ focus # "kepware" => project = Emptied
    /\ focus # "inventory" => config = Single
    /\ focus # "values" =>
         /\ scope = NoLine /\ registry = Apart
         /\ device = [k \in DeviceKeys |-> "enabled"] /\ value = [t \in Tags |-> Unwritable]

ServicesNext ==
    \/ /\ focus = "resources" /\ ResourceNext
       /\ UNCHANGED <<focus, knowledgeVars, kepwareVars, inventoryVars, valueVars>>
    \/ /\ focus = "knowledge" /\ KnowledgeNext
       /\ UNCHANGED <<focus, resourceVars, kepwareVars, inventoryVars, valueVars>>
    \/ /\ focus = "kepware" /\ KepwareNext
       /\ UNCHANGED <<focus, resourceVars, knowledgeVars, inventoryVars, valueVars>>
    \/ /\ focus = "inventory" /\ InventoryNext
       /\ UNCHANGED <<focus, resourceVars, knowledgeVars, kepwareVars, valueVars>>
    \/ /\ focus = "values" /\ ValuesNext
       /\ UNCHANGED <<focus, resourceVars, knowledgeVars, kepwareVars, inventoryVars>>

ServicesSpec == ServicesInit /\ [][ServicesNext]_servicesVars

\* Threads of the web server serve any request, so the components may share them.
Interchangeable ==
    Permutations(Requests) \cup Permutations(Docs) \cup Permutations(Profiles)
      \cup Permutations(Stamps)
=============================================================================
