-------------------------- MODULE MCCollectionWizard --------------------------
(* CollectionWizard for TLC: two devices of different systems.              *)
EXTENDS CollectionWizard

CONSTANTS d1, d2, h1, w1, w2, l1, p1, q1

MCSlot       == 1..2
MCReads      == {"incident", "devices", "lists", "targets", "modules", "profile"}
MCOS         == {"windows", "linux"}
MCDeviceOS   == [d \in Device |-> IF d = d1 THEN "linux" ELSE "windows"]
MCModulesOf  == [o \in OS |-> IF o = "windows" THEN {w1, w2} ELSE {l1}]
MCCategoryOf == [m \in Module |-> IF m = w2 THEN "volatile" ELSE "logs"]
MCProfileOf  == [p \in Profile |-> [o \in OS |-> IF o = "windows" THEN {w1} ELSE {l1}]]
MCMatches    == [q \in Query |-> {w2, l1}]
=============================================================================
