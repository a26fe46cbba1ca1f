--------------------------- MODULE MCSchemaRetrieval ---------------------------
(* Checkouts that share keys, differ in one part of a key, or ask for a type  *)
(* the old version of the provider does not have.                             *)
EXTENDS SchemaRetrieval

TwoVersions == 1..2
MCProvides == [v \in TwoVersions |-> IF v = 1 THEN {"old"} ELSE {"old", "new"}]

C(types, pin, lock, context, cache) ==
  [types |-> types, pin |-> pin, lock |-> lock, context |-> context, cache |-> cache]

MCCheckouts == {C({"old"}, Free, 1, "f", TRUE),
                C({"old"}, Free, 2, "f", TRUE),
                C({"old"}, Free, 2, "g", TRUE),
                C({"old"}, Free, Free, "f", TRUE),
                C({"old"}, 1, Free, NoContext, TRUE),
                C({"old", "new"}, 2, 1, "f", TRUE),
                C({"old", "new"}, Free, 1, "f", TRUE),
                C({}, Free, 2, "f", TRUE),
                C({"old", "new"}, Free, Free, "g", FALSE)}
=============================================================================
