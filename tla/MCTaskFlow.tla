----------------------------- MODULE MCTaskFlow -----------------------------
(***************************************************************************)
(* Finite instances of TaskFlow for TLC: a site with catalogue pages and   *)
(* items, each in a lane of its own, that link to each other; and two      *)
(* chains of single pages that change lanes below their first levels.      *)
(***************************************************************************)
EXTENDS TaskFlow

CONSTANTS list, item, pages, goods, nil

MCStages == {list, item}
MCLanes  == {pages, goods}
MCLaneOf == [s \in MCStages |-> IF s = list THEN pages ELSE goods]
MCLinks  == {<<nil, list>>, <<list, list>>, <<list, item>>, <<item, list>>}

One(mode)     == [mode |-> mode, parallel |-> 1]
MCPolicies    == [l \in MCLanes |-> {One("depth"), [mode |-> "breadth", parallel |-> 2]}]
MCSwitch      == [l \in MCLanes |-> {One("breadth")} \cup IF l = goods THEN {One("depth")} ELSE {}]

CONSTANTS home, section, shelf, detail, offer, catalogue

\* home -> section -> shelf -> detail and offer -> catalogue.
ChainStages == {home, section, shelf, detail, offer, catalogue}
ChainLaneOf == [s \in ChainStages |-> IF s \in {detail, offer} THEN goods ELSE pages]
ChainLinks  == {<<nil, home>>, <<home, section>>, <<section, shelf>>, <<shelf, detail>>,
                <<nil, offer>>, <<offer, catalogue>>}
=============================================================================
