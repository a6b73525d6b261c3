---------------------------- MODULE MCClientObjects ----------------------------
(***************************************************************************)
(* The objects that own SDK clients, for TLC.  They share nothing, so a    *)
(* behaviour is one of the object named by subject, and the others stay as *)
(* they were created: every object is explored as if it were alone.        *)
(***************************************************************************)
EXTENDS Eventhub, CosmosConnectionManager, ServiceBus, PooledTransports, BlobStorage,
        BlobNames, TLC

VARIABLE subject

objectVars == <<subject, vars, cosmosVars, busVars, transportVars, blobVars, nameVars>>

\* The objects that are left alone have the plainest of their initial states.
PlainEventhub == Init /\ ~pooled /\ client = CHOOSE p \in Producer : TRUE
PlainCosmos   == CosmosInit /\ ~lifespan /\ ~fails
PlainBus      == BusInit /\ usage = {}
PlainSlot     == TransportInit /\ family = "servicebus" /\ ~keyed
PlainBlobs    == BlobInit /\ \A b \in Blob : store[b] = 0
PlainNames    == given = << >> /\ quoted = FALSE /\ safe = << >>

ObjectInit ==
    /\ subject \in {"eventhub", "cosmos", "servicebus", "slot", "blobs", "names"}
    /\ IF subject = "eventhub"   THEN Init          ELSE PlainEventhub
    /\ IF subject = "cosmos"     THEN CosmosInit    ELSE PlainCosmos
    /\ IF subject = "servicebus" THEN BusInit       ELSE PlainBus
    /\ IF subject = "slot"       THEN TransportInit ELSE PlainSlot
    /\ IF subject = "blobs"      THEN BlobInit      ELSE PlainBlobs
    /\ IF subject = "names"      THEN NameInit      ELSE PlainNames

ObjectNext ==
    /\ UNCHANGED subject
    /\ \/ subject = "eventhub"   /\ Next
       \/ subject # "eventhub"   /\ UNCHANGED vars
    /\ \/ subject = "cosmos"     /\ CosmosNext
       \/ subject # "cosmos"     /\ UNCHANGED cosmosVars
    /\ \/ subject = "servicebus" /\ BusNext
       \/ subject # "servicebus" /\ UNCHANGED busVars
    /\ \/ subject = "slot"       /\ TransportNext
       \/ subject # "slot"       /\ UNCHANGED transportVars
    /\ \/ subject = "blobs"      /\ BlobNext
       \/ subject # "blobs"      /\ UNCHANGED blobVars
    /\ \/ subject = "names"      /\ Blobify
       \/ subject # "names"      /\ UNCHANGED nameVars

ObjectSpec == ObjectInit /\ [][ObjectNext]_objectVars

\* The attributes of every object, and what its tasks are suspended at, are of the
\* types of clients/eventhub.py, cosmos.py, service_bus.py and azure_blobs.py; in
\* particular a task awaits the close() of an object and never of None.
ObjectTypeOK == TypeOK /\ CosmosTypeOK /\ BusTypeOK /\ TransportTypeOK /\ BlobTypeOK

\* Tasks that close and tasks that do not are not interchangeable.
Symmetry ==
    {f \in Permutations(Task) : \A t \in Task : t \in Closer <=> f[t] \in Closer}
    \cup Permutations(Name)
=============================================================================
