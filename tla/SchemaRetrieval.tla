---------------------------- MODULE SchemaRetrieval ----------------------------
(***************************************************************************)
(* How runs get the provider schema and its slices through a shared cache  *)
(* (retrieve_schema of orchestration/diagnose.py, terraform/schema.py, and *)
(* the artifacts of cache/store.py).  Each run has a checkout of its own,  *)
(* the cache directory and the provider registry are shared: other runs    *)
(* store, replace and prune rows between two statements of a run, rows are *)
(* damaged, and the registry publishes versions.                           *)
(***************************************************************************)
EXTENDS Naturals, FiniteSets, Functions

CONSTANTS
  Runs,
  Versions,      \* the versions of the provider, 1..n
  Types,         \* resource types
  Provides,      \* the types each version has
  Contexts,      \* failure, diagnosis context and slicing strategy
  Checkouts,     \* the checkouts runs may have
  MaxArtifacts,  \* MAX_ARTIFACT_ENTRIES
  MaxTime,       \* bound of the clock, in the seconds of CURRENT_TIMESTAMP
  Free,          \* no version pinned, or no lock file
  NoContext,     \* the legacy context strategy
  Damaged        \* a payload that does not decode or is not complete

VARIABLES
  latest,     \* the newest version of the registry
  now,        \* the clock of the database
  artifacts,  \* table artifacts: key to payload and created_at
  pc,         \* the step each run is at
  checkout,   \* what each run works on
  info,       \* terraform_info of each run
  slices      \* schema_slices of each run

vars == <<latest, now, artifacts, pc, checkout, info, slices>>

\* pin is the constraint of the sources, lock the version of the lock file.
Checkout == [types : SUBSET Types, pin : Versions \cup {Free},
             lock : Versions \cup {Free}, context : Contexts \cup {NoContext},
             cache : BOOLEAN]

ASSUME SchemaAssumption ==
  /\ Versions \subseteq Nat /\ Free \notin Versions /\ MaxTime \in Nat
  /\ Provides \in [Versions -> SUBSET Types]
  /\ Checkouts \subseteq Checkout

FailedStatuses == {"terraform-cli-missing", "init-failed", "command-failed",
                   "output-too-large", "invalid-json"}
Statuses == FailedStatuses \cup {"not-requested", "ok", "partial", "no-resource-types"}

\* The part of TerraformInfo decisions depend on: found are the records that
\* carry a schema, version is the provider's.
Info == [status : Statuses, version : Versions \cup {Free}, found : SUBSET Types]

EmptyInfo == [status |-> "not-requested", version |-> Free, found |-> {}]

Slice == [type : Types, version : Versions \cup {Free}, context : Contexts \cup {NoContext}]

\* slice_schema_records: one slice of each record that carries a schema.
SlicesOf(found, version, context) ==
  {[type |-> t, version |-> version, context |-> context] : t \in found}

\* Mutation: the lock file is no part of the key.
SchemaKeyUnlocked(c) == [kind |-> "provider_schema", lock |-> Free,
                         source |-> [types |-> c.types, pin |-> c.pin]]

SchemaKey(c) == [kind |-> "provider_schema", lock |-> c.lock,
                 source |-> [types |-> c.types, pin |-> c.pin]]

\* Mutation: the failure and its context are no part of the key.
SliceKeyShared(i, c) == [kind |-> "schema_slice", version |-> i.version,
                         found |-> i.found, context |-> NoContext]

SliceKey(i, c) == [kind |-> "schema_slice", version |-> i.version,
                   found |-> i.found, context |-> c.context]

Schemas == [kind : {"provider_schema"}, lock : Versions \cup {Free},
            source : [types : SUBSET Types, pin : Versions \cup {Free}]]
Sliced == [kind : {"schema_slice"}, version : Versions \cup {Free},
           found : SUBSET Types, context : Contexts \cup {NoContext}]

Steps == {"lookup", "inspect", "store", "slice_lookup", "slice", "slice_store"}

TypeOK == /\ latest \in Versions /\ now \in 0..MaxTime
          /\ DOMAIN artifacts \subseteq Schemas \cup Sliced
          /\ \A k \in DOMAIN artifacts :
               /\ artifacts[k].at \in 0..now
               /\ \/ artifacts[k].payload = Damaged
                  \/ k \in Schemas /\ artifacts[k].payload \in Info
                  \/ k \in Sliced /\ artifacts[k].payload \in SUBSET Slice
          /\ pc \in [Runs -> Steps \cup {"idle", "done", "raised"}]
          /\ checkout \in [Runs -> Checkouts]
          /\ info \in [Runs -> Info]
          /\ slices \in [Runs -> SUBSET Slice]
          /\ \A r \in Runs : pc[r] \in {"lookup", "store"} => checkout[r].cache

Init == /\ latest \in Versions /\ now = 0
        /\ artifacts = << >>
        /\ pc = [r \in Runs |-> "idle"]
        /\ checkout \in [Runs -> Checkouts]
        /\ info = [r \in Runs |-> EmptyInfo]
        /\ slices = [r \in Runs |-> {}]

-------------------------------------------------------------------------------
(* The artifacts.                                                          *)

\* _prune keeps the newest rows; rows of one second are in no order.
Kept(table) ==
  {keep \in SUBSET DOMAIN table :
     /\ Cardinality(keep) = IF Cardinality(DOMAIN table) <= MaxArtifacts
                            THEN Cardinality(DOMAIN table) ELSE MaxArtifacts
     /\ \A k \in keep, d \in DOMAIN table \ keep : table[d].at <= table[k].at}

\* put_artifact replaces the row of the key and prunes, in one transaction.
Put(key, payload) ==
  LET row   == [payload |-> payload, at |-> now]
      table == [k \in DOMAIN artifacts \cup {key} |-> IF k = key THEN row ELSE artifacts[k]]
  IN \E keep \in Kept(table) : artifacts' = Restrict(table, keep)

Go(r, step) == pc' = [pc EXCEPT ![r] = step]

Reads(r, key) == key \in DOMAIN artifacts /\ artifacts[key].payload # Damaged

-------------------------------------------------------------------------------
(* One run.                                                                *)

\* Mutation: the cache is read without asking whether there is one.
StartReading(r) == /\ pc[r] = "idle" /\ Go(r, "lookup")
                   /\ UNCHANGED <<latest, now, artifacts, checkout, info, slices>>

Start(r) == /\ pc[r] = "idle"
            /\ Go(r, IF checkout[r].cache THEN "lookup" ELSE "inspect")
            /\ UNCHANGED <<latest, now, artifacts, checkout, info, slices>>

AfterSchema(r) ==
  IF checkout[r].cache /\ checkout[r].context # NoContext THEN "slice_lookup" ELSE "slice"

\* A complete row is taken; a miss, a damaged or incomplete row and an error of
\* the database all lead to terraform.
LookupSchema(r) ==
  LET key == SchemaKey(checkout[r])
  IN /\ pc[r] = "lookup"
     /\ \/ /\ Reads(r, key) /\ artifacts[key].payload.status = "ok"
           /\ info' = [info EXCEPT ![r] = artifacts[key].payload]
           /\ Go(r, AfterSchema(r))
        \/ Go(r, "inspect") /\ UNCHANGED info
     /\ UNCHANGED <<latest, now, artifacts, checkout, slices>>

\* terraform init takes the locked version, else the newest that is allowed.
Installed(c) == IF c.lock # Free THEN c.lock ELSE IF c.pin # Free THEN c.pin ELSE latest

Answered(r) ==
  LET c     == checkout[r]
      found == c.types \cap Provides[Installed(c)]
  IN [status  |-> IF c.types = {} THEN "no-resource-types"
                  ELSE IF found = c.types THEN "ok" ELSE "partial",
      version |-> Installed(c), found |-> found]

WorthStoring(i) == i.status = "ok"

\* inspect_schemas in a temporary copy.  A lock file that contradicts the
\* sources fails init; an error while copying or decoding is not caught.
Inspect(r) ==
  /\ pc[r] = "inspect"
  /\ \/ /\ checkout[r].lock = Free \/ checkout[r].pin \in {Free, checkout[r].lock}
        /\ info' = [info EXCEPT ![r] = Answered(r)]
        /\ Go(r, IF checkout[r].cache /\ WorthStoring(Answered(r))
                 THEN "store" ELSE AfterSchema(r))
     \/ /\ \E s \in FailedStatuses : info' = [info EXCEPT ![r] = [EmptyInfo EXCEPT !.status = s]]
        /\ Go(r, AfterSchema(r))
     \/ Go(r, "raised") /\ UNCHANGED info
  /\ UNCHANGED <<latest, now, artifacts, checkout, slices>>

StoreSchema(r) ==
  /\ pc[r] = "store"
  /\ Put(SchemaKey(checkout[r]), info[r]) \/ UNCHANGED artifacts
  /\ Go(r, AfterSchema(r))
  /\ UNCHANGED <<latest, now, checkout, info, slices>>

LookupSlice(r) ==
  LET key == SliceKey(info[r], checkout[r])
  IN /\ pc[r] = "slice_lookup"
     /\ \/ /\ Reads(r, key)
           /\ slices' = [slices EXCEPT ![r] = artifacts[key].payload]
           /\ Go(r, "done")
        \/ Go(r, "slice") /\ UNCHANGED slices
     /\ UNCHANGED <<latest, now, artifacts, checkout, info>>

CutSlices(r) ==
  LET cut == SlicesOf(info[r].found, info[r].version, checkout[r].context)
  IN /\ pc[r] = "slice"
     /\ slices' = [slices EXCEPT ![r] = cut]
     /\ Go(r, IF checkout[r].cache /\ checkout[r].context # NoContext /\ cut # {}
              THEN "slice_store" ELSE "done")
     /\ UNCHANGED <<latest, now, artifacts, checkout, info>>

StoreSlice(r) ==
  /\ pc[r] = "slice_store"
  /\ Put(SliceKey(info[r], checkout[r]), slices[r]) \/ UNCHANGED artifacts
  /\ Go(r, "done")
  /\ UNCHANGED <<latest, now, checkout, info, slices>>

Step(r) == \/ Start(r) \/ LookupSchema(r) \/ Inspect(r) \/ StoreSchema(r)
           \/ LookupSlice(r) \/ CutSlices(r) \/ StoreSlice(r)

-------------------------------------------------------------------------------
(* Around the runs.                                                        *)

Publish == /\ latest + 1 \in Versions /\ latest' = latest + 1
           /\ UNCHANGED <<now, artifacts, pc, checkout, info, slices>>

Tick == /\ now < MaxTime /\ now' = now + 1
        /\ UNCHANGED <<latest, artifacts, pc, checkout, info, slices>>

Damage == /\ \E k \in DOMAIN artifacts :
               artifacts' = [artifacts EXCEPT ![k].payload = Damaged]
          /\ UNCHANGED <<latest, now, pc, checkout, info, slices>>

\* cache clear of another process.
Clear == /\ artifacts' = << >>
         /\ UNCHANGED <<latest, now, pc, checkout, info, slices>>

Next == (\E r \in Runs : Step(r)) \/ Publish \/ Tick \/ Damage \/ Clear

Spec == Init /\ [][Next]_vars

-------------------------------------------------------------------------------
(* Properties.                                                             *)

Fixed(c) == c.lock # Free \/ c.pin # Free

\* Whichever run stored the schema, a run whose sources or lock file name a
\* version goes on with the schema of that version, and a schema called
\* complete has every type the run asked for.  No run is kept from asking
\* terraform again by what went wrong in another one: a failed or partial
\* inspection is not remembered.
SchemaFitsCheckout ==
  /\ \A r \in Runs : info[r].status = "ok" =>
       /\ info[r].found = checkout[r].types
       /\ Fixed(checkout[r]) => info[r].version = Installed(checkout[r])
  /\ \A k \in DOMAIN artifacts : artifacts[k].payload # Damaged =>
       IF k.kind = "provider_schema"
       THEN artifacts[k].payload.status = "ok" /\ k.source.types # {}
       ELSE artifacts[k].payload # {}

\* Slices taken from the cache are the ones this run would cut for its own
\* failure out of its own schema, and whether a run has any (schema_retrieved,
\* which pays for a second call) depends on its schema only.
SlicesFitSchema ==
  \A r \in Runs : pc[r] = "done" =>
    slices[r] = SlicesOf(info[r].found, info[r].version, checkout[r].context)
=============================================================================
