------------------------- MODULE SchemaRetrieval_proofs -------------------------
(***************************************************************************)
(* Proofs about SchemaRetrieval, for any runs, checkouts, versions and     *)
(* sizes of the cache.  A run may take a row that any other run stored, so *)
(* the invariant says of every row what its key promises (RowsFitKeys) and *)
(* of every run what it may store (RunsFit).                               *)
(***************************************************************************)
EXTENDS SchemaRetrieval, TLAPS

\* What the lock file or else the sources name.
Named(lock, pin) == IF lock # Free THEN lock ELSE pin

RowsFitKeys ==
  \A k \in DOMAIN artifacts : artifacts[k].payload # Damaged =>
    /\ k \in Schemas =>
         /\ artifacts[k].payload.status = "ok"
         /\ artifacts[k].payload.found = k.source.types
         /\ k.source.types # {}
         /\ Named(k.lock, k.source.pin) # Free =>
              artifacts[k].payload.version = Named(k.lock, k.source.pin)
    /\ k \in Sliced =>
         /\ artifacts[k].payload = SlicesOf(k.found, k.version, k.context)
         /\ k.found # {}

RunFits(r) ==
  /\ info[r].status = "ok" =>
       /\ info[r].found = checkout[r].types
       /\ checkout[r].types # {}
       /\ Named(checkout[r].lock, checkout[r].pin) # Free =>
            info[r].version = Named(checkout[r].lock, checkout[r].pin)
  /\ pc[r] = "store" => info[r].status = "ok"
  /\ pc[r] \in {"slice_store", "done"} =>
       slices[r] = SlicesOf(info[r].found, info[r].version, checkout[r].context)
  /\ pc[r] = "slice_store" => info[r].found # {}

RunsFit == \A r \in Runs : RunFits(r)

IInv == TypeOK /\ RowsFitKeys /\ RunsFit

-------------------------------------------------------------------------------
(* The table and the keys.                                                 *)

\* A stored row is the only one that is new or changed, whatever is pruned.
LEMMA PutEffect ==
  ASSUME NEW key, NEW payload, Put(key, payload)
  PROVE  /\ DOMAIN artifacts' \subseteq DOMAIN artifacts \cup {key}
         /\ \A k \in DOMAIN artifacts' :
              artifacts'[k] = IF k = key THEN [payload |-> payload, at |-> now]
                                         ELSE artifacts[k]
<1> DEFINE table == [k \in DOMAIN artifacts \cup {key} |->
                       IF k = key THEN [payload |-> payload, at |-> now] ELSE artifacts[k]]
<1>1. PICK keep \in Kept(table) : artifacts' = Restrict(table, keep)
  BY DEF Put
<1>2. keep \subseteq DOMAIN artifacts \cup {key}
  BY DEF Kept
<1> QED
  BY <1>1, <1>2 DEF Restrict

\* The two kinds of keys are never confused.
LEMMA KindsDiffer == Schemas \cap Sliced = {}
BY DEF Schemas, Sliced

\* The keys a run uses are of their kinds.
LEMMA KeysOfRuns ==
  ASSUME TypeOK, NEW r \in Runs
  PROVE  /\ SchemaKey(checkout[r]) \in Schemas
         /\ SliceKey(info[r], checkout[r]) \in Sliced
<1>1. checkout[r] \in Checkout
  BY SchemaAssumption DEF TypeOK
<1>2. info[r] \in Info
  BY DEF TypeOK
<1> QED
  BY <1>1, <1>2 DEF SchemaKey, SliceKey, Schemas, Sliced, Checkout, Info

\* Slices of typed parts are typed.
LEMMA SlicesTyped ==
  ASSUME TypeOK, NEW r \in Runs
  PROVE  SlicesOf(info[r].found, info[r].version, checkout[r].context) \in SUBSET Slice
<1>1. checkout[r].context \in Contexts \cup {NoContext}
  BY SchemaAssumption DEF TypeOK, Checkout
<1>2. info[r].found \subseteq Types /\ info[r].version \in Versions \cup {Free}
  BY DEF TypeOK, Info
<1> QED
  BY <1>1, <1>2 DEF SlicesOf, Slice

\* What terraform answers is typed, and fits the checkout when it is complete.
LEMMA AnswerFits ==
  ASSUME TypeOK, NEW r \in Runs
  PROVE  /\ Answered(r) \in Info
         /\ Answered(r).status = "ok" =>
              /\ Answered(r).found = checkout[r].types
              /\ checkout[r].types # {}
              /\ Named(checkout[r].lock, checkout[r].pin) # Free =>
                   Answered(r).version = Named(checkout[r].lock, checkout[r].pin)
<1>1. /\ checkout[r].types \subseteq Types
      /\ checkout[r].lock \in Versions \cup {Free}
      /\ checkout[r].pin \in Versions \cup {Free}
      /\ latest \in Versions
  BY SchemaAssumption DEF TypeOK, Checkout
<1>2. Installed(checkout[r]) \in Versions
  BY <1>1 DEF Installed
<1>3. checkout[r].types \cap Provides[Installed(checkout[r])] \subseteq Types
  BY <1>1
<1>4. Answered(r) \in Info
  BY <1>2, <1>3 DEF Answered, Info, Statuses
<1> QED
  BY <1>1, <1>2, <1>4 DEF Answered, Installed, Named

-------------------------------------------------------------------------------
(* Storing and taking rows.                                                *)

\* A row that is typed and fits its key keeps the table so.
LEMMA PutKeepsTable ==
  ASSUME TypeOK, RowsFitKeys, NEW key, NEW payload, Put(key, payload),
         UNCHANGED now,
         \/ /\ key \in Schemas /\ payload \in Info
            /\ payload.status = "ok"
            /\ payload.found = key.source.types /\ key.source.types # {}
            /\ Named(key.lock, key.source.pin) # Free =>
                 payload.version = Named(key.lock, key.source.pin)
         \/ /\ key \in Sliced /\ payload \in SUBSET Slice
            /\ payload = SlicesOf(key.found, key.version, key.context)
            /\ key.found # {}
  PROVE  /\ DOMAIN artifacts' \subseteq Schemas \cup Sliced
         /\ \A k \in DOMAIN artifacts' :
              /\ artifacts'[k].at \in 0..now'
              /\ \/ artifacts'[k].payload = Damaged
                 \/ k \in Schemas /\ artifacts'[k].payload \in Info
                 \/ k \in Sliced /\ artifacts'[k].payload \in SUBSET Slice
         /\ RowsFitKeys'
<1>1. /\ DOMAIN artifacts' \subseteq DOMAIN artifacts \cup {key}
      /\ \A k \in DOMAIN artifacts' :
           artifacts'[k] = IF k = key THEN [payload |-> payload, at |-> now]
                                      ELSE artifacts[k]
  BY PutEffect
<1>2. DOMAIN artifacts' \subseteq Schemas \cup Sliced
  BY <1>1 DEF TypeOK
<1>3. now \in 0..now
  BY SchemaAssumption DEF TypeOK
<1>4. ASSUME NEW k \in DOMAIN artifacts'
      PROVE  /\ artifacts'[k].at \in 0..now'
             /\ \/ artifacts'[k].payload = Damaged
                \/ k \in Schemas /\ artifacts'[k].payload \in Info
                \/ k \in Sliced /\ artifacts'[k].payload \in SUBSET Slice
  <2>1. CASE k = key
    BY <1>1, <1>3, <1>4, <2>1
  <2>2. CASE k # key
    BY <1>1, <1>4, <2>2 DEF TypeOK
  <2> QED BY <2>1, <2>2
<1>5. RowsFitKeys'
  <2> SUFFICES ASSUME NEW k \in DOMAIN artifacts', artifacts'[k].payload # Damaged
               PROVE  /\ k \in Schemas =>
                           /\ artifacts'[k].payload.status = "ok"
                           /\ artifacts'[k].payload.found = k.source.types
                           /\ k.source.types # {}
                           /\ Named(k.lock, k.source.pin) # Free =>
                                artifacts'[k].payload.version = Named(k.lock, k.source.pin)
                      /\ k \in Sliced =>
                           /\ artifacts'[k].payload = SlicesOf(k.found, k.version, k.context)
                           /\ k.found # {}
    BY DEF RowsFitKeys
  <2>1. CASE k = key
    BY <1>1, <2>1, KindsDiffer
  <2>2. CASE k # key
    BY <1>1, <2>2 DEF RowsFitKeys
  <2> QED BY <2>1, <2>2
<1> QED BY <1>2, <1>4, <1>5

\* What a run finds under its key is what its checkout calls for.
LEMMA RowForRun ==
  ASSUME TypeOK, RowsFitKeys, NEW r \in Runs
  PROVE  /\ Reads(r, SchemaKey(checkout[r])) =>
              LET p == artifacts[SchemaKey(checkout[r])].payload
              IN /\ p \in Info
                 /\ p.status = "ok" /\ p.found = checkout[r].types
                 /\ checkout[r].types # {}
                 /\ Named(checkout[r].lock, checkout[r].pin) # Free =>
                      p.version = Named(checkout[r].lock, checkout[r].pin)
         /\ Reads(r, SliceKey(info[r], checkout[r])) =>
              artifacts[SliceKey(info[r], checkout[r])].payload
                = SlicesOf(info[r].found, info[r].version, checkout[r].context)
<1>1. SchemaKey(checkout[r]) \in Schemas /\ SliceKey(info[r], checkout[r]) \in Sliced
  BY KeysOfRuns
<1>2. /\ SchemaKey(checkout[r]).lock = checkout[r].lock
      /\ SchemaKey(checkout[r]).source = [types |-> checkout[r].types, pin |-> checkout[r].pin]
  BY DEF SchemaKey
<1>3. /\ SliceKey(info[r], checkout[r]).found = info[r].found
      /\ SliceKey(info[r], checkout[r]).version = info[r].version
      /\ SliceKey(info[r], checkout[r]).context = checkout[r].context
  BY DEF SliceKey
<1>4. Reads(r, SchemaKey(checkout[r])) => artifacts[SchemaKey(checkout[r])].payload \in Info
  BY <1>1, KindsDiffer DEF Reads, TypeOK
<1> QED
  BY <1>1, <1>2, <1>3, <1>4 DEF Reads, RowsFitKeys

-------------------------------------------------------------------------------
(* The invariant.                                                          *)

\* A run that no step touches stays as it is.
LEMMA OthersStay ==
  ASSUME RunsFit, NEW r \in Runs, UNCHANGED checkout,
         \A q \in Runs \ {r} : /\ info'[q] = info[q] /\ pc'[q] = pc[q]
                               /\ slices'[q] = slices[q],
         RunFits(r)'
  PROVE  RunsFit'
BY DEF RunsFit, RunFits

LEMMA InitIInv == Init => IInv
<1> SUFFICES ASSUME Init PROVE IInv
  OBVIOUS
<1>1. DOMAIN artifacts = {}
  BY DEF Init
<1>2. EmptyInfo \in Info
  BY DEF EmptyInfo, Info, Statuses
<1>3. TypeOK
  BY <1>1, <1>2, SchemaAssumption DEF Init, TypeOK
<1>4. RowsFitKeys
  BY <1>1 DEF RowsFitKeys
<1>5. RunsFit
  BY DEF Init, RunsFit, RunFits, EmptyInfo
<1> QED BY <1>3, <1>4, <1>5 DEF IInv

\* One step of a run.
LEMMA StepIInv ==
  ASSUME IInv, NEW r \in Runs, Step(r)
  PROVE  IInv'
<1> USE DEF IInv, Go
<1>1. CASE Start(r)
  <2>1. TypeOK'
    BY <1>1 DEF Start, TypeOK, Steps
  <2>2. RowsFitKeys'
    BY <1>1 DEF Start, RowsFitKeys
  <2>3. RunFits(r)'
    BY <1>1 DEF Start, RunsFit, RunFits, TypeOK
  <2>4. RunsFit'
    BY <1>1, <2>3, OthersStay DEF Start, TypeOK
  <2> QED BY <2>1, <2>2, <2>4
<1>2. CASE LookupSchema(r)
  <2>1. UNCHANGED <<latest, now, artifacts, checkout, slices>>
    BY <1>2 DEF LookupSchema
  <2>2. info' = [info EXCEPT ![r] = info'[r]] /\ pc' = [pc EXCEPT ![r] = pc'[r]]
    BY <1>2 DEF LookupSchema, TypeOK
  <2>3. /\ info'[r] \in Info
        /\ pc'[r] \in {"slice_lookup", "slice", "inspect"}
    BY <1>2, RowForRun DEF LookupSchema, TypeOK, AfterSchema
  <2>4. TypeOK'
    BY <2>1, <2>2, <2>3 DEF TypeOK, Steps
  <2>5. RowsFitKeys'
    BY <2>1 DEF RowsFitKeys
  <2>6. RunFits(r)'
    <3>1. info'[r] = info[r] \/ /\ Reads(r, SchemaKey(checkout[r]))
                                /\ info'[r] = artifacts[SchemaKey(checkout[r])].payload
      BY <1>2 DEF LookupSchema, TypeOK
    <3> QED
      BY <2>1, <2>3, <3>1, RowForRun DEF RunsFit, RunFits
  <2>7. RunsFit'
    BY <2>1, <2>2, <2>6, OthersStay DEF TypeOK
  <2> QED BY <2>4, <2>5, <2>7
<1>3. CASE Inspect(r)
  <2>1. UNCHANGED <<latest, now, artifacts, checkout, slices>>
    BY <1>3 DEF Inspect
  <2>2. info' = [info EXCEPT ![r] = info'[r]] /\ pc' = [pc EXCEPT ![r] = pc'[r]]
    BY <1>3 DEF Inspect, TypeOK
  <2>3. \/ /\ info'[r] = Answered(r)
           /\ pc'[r] = IF checkout[r].cache /\ Answered(r).status = "ok"
                       THEN "store" ELSE AfterSchema(r)
        \/ /\ info'[r] \in Info /\ info'[r].status # "ok"
           /\ pc'[r] = AfterSchema(r)
        \/ info'[r] = info[r] /\ pc'[r] = "raised"
    BY <1>3 DEF Inspect, TypeOK, WorthStoring, FailedStatuses, EmptyInfo, Info, Statuses
  <2>4. AfterSchema(r) \in {"slice_lookup", "slice"}
    BY DEF AfterSchema
  <2>5. TypeOK'
    BY <2>1, <2>2, <2>3, <2>4, AnswerFits DEF TypeOK, Steps
  <2>6. RowsFitKeys'
    BY <2>1 DEF RowsFitKeys
  <2>7. RunFits(r)'
    BY <2>1, <2>3, <2>4, AnswerFits DEF RunsFit, RunFits
  <2>8. RunsFit'
    BY <2>1, <2>2, <2>7, OthersStay DEF TypeOK
  <2> QED BY <2>5, <2>6, <2>8
<1>4. CASE StoreSchema(r)
  <2>1. /\ UNCHANGED <<latest, now, checkout, info, slices>>
        /\ pc' = [pc EXCEPT ![r] = AfterSchema(r)]
        /\ pc[r] = "store"
    BY <1>4 DEF StoreSchema
  <2>2. AfterSchema(r) \in {"slice_lookup", "slice"}
    BY DEF AfterSchema
  <2>3. info[r] \in Info /\ info[r].status = "ok"
    BY <2>1 DEF TypeOK, RunsFit, RunFits
  <2>4. ASSUME Put(SchemaKey(checkout[r]), info[r])
       PROVE  TypeOK' /\ RowsFitKeys'
    <3>1. /\ info[r].found = checkout[r].types /\ checkout[r].types # {}
          /\ Named(checkout[r].lock, checkout[r].pin) # Free =>
               info[r].version = Named(checkout[r].lock, checkout[r].pin)
      BY <2>3 DEF RunsFit, RunFits
    <3>2. /\ SchemaKey(checkout[r]).lock = checkout[r].lock
          /\ SchemaKey(checkout[r]).source.types = checkout[r].types
          /\ SchemaKey(checkout[r]).source.pin = checkout[r].pin
      BY DEF SchemaKey
    <3> HIDE DEF IInv
    <3> DEFINE key == SchemaKey(checkout[r])
    <3>3. key \in Schemas
      BY KeysOfRuns DEF IInv
    <3> HIDE DEF key
    <3>4. /\ DOMAIN artifacts' \subseteq Schemas \cup Sliced
          /\ \A k \in DOMAIN artifacts' :
               /\ artifacts'[k].at \in 0..now'
               /\ \/ artifacts'[k].payload = Damaged
                  \/ k \in Schemas /\ artifacts'[k].payload \in Info
                  \/ k \in Sliced /\ artifacts'[k].payload \in SUBSET Slice
          /\ RowsFitKeys'
      BY <2>1, <2>3, <2>4, <3>1, <3>2, <3>3, PutKeepsTable DEF key, IInv
    <3>5. TypeOK'
      BY <2>1, <2>2, <3>4 DEF IInv, TypeOK, Steps
    <3> QED BY <3>4, <3>5
  <2>5. ASSUME UNCHANGED artifacts
       PROVE  TypeOK' /\ RowsFitKeys'
    <3>1. TypeOK'
      BY <2>1, <2>2, <2>5 DEF TypeOK, Steps
    <3>2. RowsFitKeys'
      BY <2>5 DEF RowsFitKeys
    <3> QED BY <3>1, <3>2
  <2>6. TypeOK' /\ RowsFitKeys'
    BY <1>4, <2>4, <2>5 DEF StoreSchema
  <2>7. RunFits(r)'
    BY <2>1, <2>2 DEF RunsFit, RunFits, TypeOK
  <2>8. RunsFit'
    BY <2>1, <2>7, OthersStay DEF TypeOK
  <2> QED BY <2>6, <2>8
<1>5. CASE LookupSlice(r)
  <2>1. UNCHANGED <<latest, now, artifacts, checkout, info>>
    BY <1>5 DEF LookupSlice
  <2>2. slices' = [slices EXCEPT ![r] = slices'[r]] /\ pc' = [pc EXCEPT ![r] = pc'[r]]
    BY <1>5 DEF LookupSlice, TypeOK
  <2>3. \/ /\ slices'[r] = SlicesOf(info[r].found, info[r].version, checkout[r].context)
           /\ pc'[r] = "done"
        \/ slices'[r] = slices[r] /\ pc'[r] = "slice"
    BY <1>5, RowForRun DEF LookupSlice, TypeOK
  <2>4. TypeOK'
    BY <2>1, <2>2, <2>3, SlicesTyped DEF TypeOK, Steps
  <2>5. RowsFitKeys'
    BY <2>1 DEF RowsFitKeys
  <2>6. RunFits(r)'
    BY <2>1, <2>3 DEF RunsFit, RunFits
  <2>7. RunsFit'
    BY <2>1, <2>2, <2>6, OthersStay DEF TypeOK
  <2> QED BY <2>4, <2>5, <2>7
<1>6. CASE CutSlices(r)
  <2>1. UNCHANGED <<latest, now, artifacts, checkout, info>>
    BY <1>6 DEF CutSlices
  <2>2. slices' = [slices EXCEPT ![r] = slices'[r]] /\ pc' = [pc EXCEPT ![r] = pc'[r]]
    BY <1>6 DEF CutSlices, TypeOK
  <2>3. /\ slices'[r] = SlicesOf(info[r].found, info[r].version, checkout[r].context)
        /\ pc'[r] \in {"slice_store", "done"}
        /\ pc'[r] = "slice_store" => slices'[r] # {}
    BY <1>6 DEF CutSlices, TypeOK
  <2>4. TypeOK'
    BY <2>1, <2>2, <2>3, SlicesTyped DEF TypeOK, Steps
  <2>5. RowsFitKeys'
    BY <2>1 DEF RowsFitKeys
  <2>6. pc'[r] = "slice_store" => info[r].found # {}
    BY <2>3 DEF SlicesOf
  <2>7. RunFits(r)'
    BY <2>1, <2>3, <2>6 DEF RunsFit, RunFits
  <2>8. RunsFit'
    BY <2>1, <2>2, <2>7, OthersStay DEF TypeOK
  <2> QED BY <2>4, <2>5, <2>8
<1>7. CASE StoreSlice(r)
  <2>1. /\ UNCHANGED <<latest, now, checkout, info, slices>>
        /\ pc' = [pc EXCEPT ![r] = "done"]
        /\ pc[r] = "slice_store"
    BY <1>7 DEF StoreSlice
  <2>2. /\ slices[r] = SlicesOf(info[r].found, info[r].version, checkout[r].context)
        /\ info[r].found # {}
    BY <2>1 DEF RunsFit, RunFits
  <2>3. ASSUME Put(SliceKey(info[r], checkout[r]), slices[r])
       PROVE  TypeOK' /\ RowsFitKeys'
    <3> DEFINE key == SliceKey(info[r], checkout[r])
    <3>1. key \in Sliced
      BY KeysOfRuns
    <3>2. /\ key.found = info[r].found /\ key.version = info[r].version
          /\ key.context = checkout[r].context
      BY DEF SliceKey
    <3>3. slices[r] \in SUBSET Slice
      BY DEF TypeOK
    <3> HIDE DEF key
    <3>4. /\ DOMAIN artifacts' \subseteq Schemas \cup Sliced
          /\ \A k \in DOMAIN artifacts' :
               /\ artifacts'[k].at \in 0..now'
               /\ \/ artifacts'[k].payload = Damaged
                  \/ k \in Schemas /\ artifacts'[k].payload \in Info
                  \/ k \in Sliced /\ artifacts'[k].payload \in SUBSET Slice
          /\ RowsFitKeys'
      BY <2>1, <2>2, <2>3, <3>1, <3>2, <3>3, PutKeepsTable DEF key
    <3>5. TypeOK'
      BY <2>1, <3>4 DEF TypeOK, Steps
    <3> QED BY <3>4, <3>5
  <2>4. ASSUME UNCHANGED artifacts
       PROVE  TypeOK' /\ RowsFitKeys'
    <3>1. TypeOK'
      BY <2>1, <2>4 DEF TypeOK, Steps
    <3>2. RowsFitKeys'
      BY <2>4 DEF RowsFitKeys
    <3> QED BY <3>1, <3>2
  <2>5. TypeOK' /\ RowsFitKeys'
    BY <1>7, <2>3, <2>4 DEF StoreSlice
  <2>6. RunFits(r)'
    BY <2>1, <2>2 DEF RunsFit, RunFits, TypeOK
  <2>7. RunsFit'
    BY <2>1, <2>6, OthersStay DEF TypeOK
  <2> QED BY <2>5, <2>7
<1> QED
  BY <1>1, <1>2, <1>3, <1>4, <1>5, <1>6, <1>7 DEF Step

LEMMA NextIInv == IInv /\ [Next]_vars => IInv'
<1> SUFFICES ASSUME IInv, [Next]_vars PROVE IInv'
  OBVIOUS
<1>1. CASE \E r \in Runs : Step(r)
  BY <1>1, StepIInv
<1>2. CASE Publish
  BY <1>2 DEF Publish, IInv, TypeOK, RowsFitKeys, RunsFit, RunFits
<1>3. CASE Tick
  <2>1. now' \in 0..MaxTime /\ \A t \in 0..now : t \in 0..now'
    BY <1>3, SchemaAssumption DEF Tick, IInv, TypeOK
  <2> QED
    BY <1>3, <2>1 DEF Tick, IInv, TypeOK, RowsFitKeys, RunsFit, RunFits
<1>4. CASE Damage
  <2>1. PICK k \in DOMAIN artifacts : artifacts' = [artifacts EXCEPT ![k].payload = Damaged]
    BY <1>4 DEF Damage
  <2>2. /\ DOMAIN artifacts' = DOMAIN artifacts
        /\ \A q \in DOMAIN artifacts : q # k => artifacts'[q] = artifacts[q]
        /\ artifacts'[k] = [artifacts[k] EXCEPT !.payload = Damaged]
    BY <2>1
  <2>3. artifacts'[k].at = artifacts[k].at
    BY <2>2
  <2>4. artifacts'[k].payload = Damaged
    BY <2>2
  <2> QED
    BY <1>4, <2>2, <2>3, <2>4 DEF Damage, IInv, TypeOK, RowsFitKeys, RunsFit, RunFits
<1>5. CASE Clear
  <2>1. DOMAIN artifacts' = {}
    BY <1>5 DEF Clear
  <2> QED
    BY <1>5, <2>1 DEF Clear, IInv, TypeOK, RowsFitKeys, RunsFit, RunFits
<1>6. CASE UNCHANGED vars
  BY <1>6 DEF vars, IInv, TypeOK, RowsFitKeys, RunsFit, RunFits
<1> QED
  BY <1>1, <1>2, <1>3, <1>4, <1>5, <1>6 DEF Next

LEMMA Inductive == Spec => []IInv
BY InitIInv, NextIInv, PTL DEF Spec

-------------------------------------------------------------------------------
(* Theorems.                                                               *)

\* Every variable keeps to its type, and no run without a cache comes to a step
\* that reads or writes one.
THEOREM TypeCorrect == Spec => []TypeOK
<1>1. IInv => TypeOK
  BY DEF IInv
<1> QED BY <1>1, Inductive, PTL

LEMMA FailuresAreNotKept ==
  ASSUME IInv, NEW k \in DOMAIN artifacts, artifacts[k].payload # Damaged
  PROVE  IF k.kind = "provider_schema"
         THEN artifacts[k].payload.status = "ok" /\ k.source.types # {}
         ELSE artifacts[k].payload # {}
<1>1. CASE k \in Schemas
  BY <1>1 DEF IInv, RowsFitKeys, Schemas
<1>2. CASE k \in Sliced
  <2>1. /\ artifacts[k].payload = SlicesOf(k.found, k.version, k.context)
        /\ k.found # {}
    BY <1>2 DEF IInv, RowsFitKeys
  <2>2. k.kind = "schema_slice"
    BY <1>2 DEF Sliced
  <2> QED BY <2>1, <2>2 DEF SlicesOf
<1> QED BY <1>1, <1>2 DEF IInv, TypeOK

\* No interleaving of runs that share the cache gives a run the schema of
\* another version than its lock file or its sources name, or an incomplete
\* one, and failed and partial inspections leave nothing behind.
THEOREM SchemaIsTheCheckouts == Spec => []SchemaFitsCheckout
<1>1. IInv => \A r \in Runs : info[r].status = "ok" =>
                /\ info[r].found = checkout[r].types
                /\ Fixed(checkout[r]) => info[r].version = Installed(checkout[r])
  BY DEF IInv, RunsFit, RunFits, Fixed, Installed, Named
<1>2. IInv => SchemaFitsCheckout
  BY <1>1, FailuresAreNotKept DEF SchemaFitsCheckout
<1> QED BY <1>2, Inductive, PTL

\* The slices a run ends with are its own, taken from the cache or not.
THEOREM SlicesAreTheRuns == Spec => []SlicesFitSchema
<1>1. IInv => SlicesFitSchema
  BY DEF IInv, RunsFit, RunFits, SlicesFitSchema
<1> QED BY <1>1, Inductive, PTL
=============================================================================
